---- MODULE Spec2Model ----
(***************************************************************************)
(* GameCache (mybgg): the faceted filter / sort / paginate engine and its  *)
(* URL-state codec, modelled from the browser application script.          *)
(*                                                                         *)
(* JavaScript strings are sequences of atoms.  An atom is one character    *)
(* that the code inspects (a digit, '-', '+', ',', ' ', a letter) or an     *)
(* indivisible run of characters none of which the code inspects.          *)
(* JavaScript numbers are records [k, v]: k = "num" with value v, "nan",   *)
(* or "inf" (+Infinity).                                                   *)
(***************************************************************************)
EXTENDS Integers, Sequences, FiniteSets, TLC

VARIABLES
  allGames,       \* the loaded collection (let allGames)
  filteredGames,  \* the filtered and sorted list (let filteredGames)
  currentPage,    \* let currentPage (a JavaScript number)
  url,            \* window.location.search as a map  key -> string
  ui,             \* the form controls: search box, check boxes, radios, select
  counts,         \* the facet counts written into the DOM, per facet and node
  subVisible,     \* the player sub-options currently displayed
  hits,           \* the items rendered in #hits by updateResults
  applied,        \* the FilterState given to the last applyFiltersAndSort
  setupItems,     \* the playerItems built by setupPlayersFilter
  nodes,          \* the input values of each facet, in document order
  last,           \* the handler that ran last
  pc,             \* "boot" before initializeUI has run, then "ready"
  startup,        \* initializeDatabase: its position, the response, the error
  search,         \* the search box's debounce timer (let timeout)
  call,           \* one call of a pure function: its arguments and result
  history,        \* window.history: the entries of the session, the current one
  pagination,     \* the pages for which #pagination holds a button
  thrown          \* the exception the last recompute left uncaught

vars == <<allGames, filteredGames, currentPage, url, ui, counts, subVisible,
          hits, applied, setupItems, nodes, last, pc, startup, search, call,
          history, pagination, thrown>>

----------------------------------------------------------------------------
(* JavaScript numbers *)

\* const x = v; ... : the value is computed once and named in what follows
Let(v, Body(_)) == Body(v)

Num(n) == [k |-> "num", v |-> n]
NaN == [k |-> "nan", v |-> 0]
Infinity == [k |-> "inf", v |-> 0]

isNaN(a) == a.k = "nan"
isFinite(a) == a.k = "num"

\* a <= b on JavaScript numbers: false as soon as one side is NaN
JsLe(a, b) ==
  CASE a.k = "nan" \/ b.k = "nan" -> FALSE
    [] b.k = "inf" -> TRUE
    [] a.k = "inf" -> FALSE
    [] OTHER -> a.v <= b.v

JsGe(a, b) == JsLe(b, a)

\* a < b on JavaScript numbers
JsLt(a, b) ==
  CASE a.k = "nan" \/ b.k = "nan" -> FALSE
    [] a.k = "inf" -> FALSE
    [] b.k = "inf" -> TRUE
    [] OTHER -> a.v < b.v

JsGt(a, b) == JsLt(b, a)

\* a === b on JavaScript numbers (NaN differs from itself)
JsEq(a, b) == a.k # "nan" /\ b.k # "nan" /\ a = b

\* the truthiness of a number: 0 and NaN are falsy
NumTruthy(a) == ~(a.k = "nan") /\ ~(a.k = "num" /\ a.v = 0)

----------------------------------------------------------------------------
(* JavaScript strings *)

DigitSeq == <<"0", "1", "2", "3", "4", "5", "6", "7", "8", "9">>
DigitSet == {DigitSeq[i] : i \in 1..10}

DigitVal(a) == (CHOOSE i \in 1..10 : DigitSeq[i] = a) - 1

AllDigits(s) == \A i \in 1..Len(s) : s[i] \in DigitSet

RECURSIVE DecVal(_)
DecVal(s) ==
  IF s = <<>> THEN 0
  ELSE 10 * DecVal(SubSeq(s, 1, Len(s) - 1)) + DigitVal(s[Len(s)])

RECURSIVE NatToStr(_)
NatToStr(n) ==
  IF n < 10 THEN <<DigitSeq[n + 1]>>
  ELSE NatToStr(n \div 10) \o <<DigitSeq[(n % 10) + 1]>>

\* String(x) and `${x}` for a number x
NumToStr(a) ==
  CASE a.k = "nan" -> <<"NaN">>
    [] a.k = "inf" -> <<"Infinity">>
    [] a.v < 0 -> <<"-">> \o NatToStr(0 - a.v)
    [] OTHER -> NatToStr(a.v)

Whitespace == {" "}

RECURSIVE TrimLeft(_)
TrimLeft(s) ==
  IF s # <<>> /\ s[1] \in Whitespace THEN TrimLeft(Tail(s)) ELSE s

RECURSIVE TrimRight(_)
TrimRight(s) ==
  IF s # <<>> /\ s[Len(s)] \in Whitespace
  THEN TrimRight(SubSeq(s, 1, Len(s) - 1)) ELSE s

\* String.prototype.trim
Trim(s) == TrimRight(TrimLeft(s))

\* Number(s) for a string s: '' is 0, a signed decimal is its value, the
\* rest is NaN
Number(s) ==
  Let(Trim(s), LAMBDA t :
    CASE t = <<>> -> Num(0)
      [] AllDigits(t) -> Num(DecVal(t))
      [] Len(t) > 1 /\ t[1] = "-" /\ AllDigits(Tail(t)) -> Num(0 - DecVal(Tail(t)))
      [] Len(t) > 1 /\ t[1] = "+" /\ AllDigits(Tail(t)) -> Num(DecVal(Tail(t)))
      [] OTHER -> NaN)

\* the length of the longest prefix of s made of digits
RECURSIVE DigitPrefixLen(_)
DigitPrefixLen(s) ==
  IF s # <<>> /\ s[1] \in DigitSet THEN 1 + DigitPrefixLen(Tail(s)) ELSE 0

\* parseInt(s, 10): leading white space, an optional sign, then the longest
\* run of digits; NaN when there is no digit
parseInt(s) ==
  Let(TrimLeft(s), LAMBDA t :
    Let(IF t # <<>> /\ t[1] \in {"-", "+"} THEN Tail(t) ELSE t, LAMBDA u :
      Let(DigitPrefixLen(u), LAMBDA n :
        IF n = 0 THEN NaN
        ELSE IF t[1] = "-" THEN Num(0 - DecVal(SubSeq(u, 1, n)))
        ELSE Num(DecVal(SubSeq(u, 1, n))))))

\* String.prototype.split(sep) for a one-character separator
RECURSIVE Split(_, _)
Split(s, sep) ==
  IF \A i \in 1..Len(s) : s[i] # sep THEN <<s>>
  ELSE LET i == CHOOSE j \in 1..Len(s) :
                  s[j] = sep /\ \A m \in 1..(j - 1) : s[m] # sep
       IN <<SubSeq(s, 1, i - 1)>> \o Split(SubSeq(s, i + 1, Len(s)), sep)

\* Array.prototype.join(sep)
RECURSIVE Join(_, _)
Join(list, sep) ==
  IF list = <<>> THEN <<>>
  ELSE IF Len(list) = 1 THEN list[1]
  ELSE list[1] \o <<sep>> \o Join(Tail(list), sep)

\* arr.filter(Boolean) on an array of strings: drops the empty strings
FilterBoolean(list) == SelectSeq(list, LAMBDA x : x # <<>>)

\* Array.prototype.includes
Includes(list, x) == \E i \in 1..Len(list) : list[i] = x

\* String.prototype.includes(q): q occurs in s as a contiguous run
StrIncludes(s, q) ==
  \E i \in 0..(Len(s) - Len(q)) : SubSeq(s, i + 1, i + Len(q)) = q

UpperSeq == <<"A", "B", "C", "D">>
LowerSeq == <<"a", "b", "c", "d">>

\* String.prototype.toLowerCase
toLowerCase(s) ==
  [i \in 1..Len(s) |->
     IF \E j \in 1..Len(UpperSeq) : UpperSeq[j] = s[i]
     THEN LowerSeq[CHOOSE j \in 1..Len(UpperSeq) : UpperSeq[j] = s[i]]
     ELSE s[i]]

----------------------------------------------------------------------------
(* parsePlayerCount *)

Sentinel == [min |-> Num(0), max |-> Num(0), open |-> FALSE]

\* the hyphen and the en dash (written "endash")
DashSet == {"-", "endash"}

\* s.match(/^(\d+)[endash-](\d+)$/)
RangeMatch(s) ==
  \E i \in 2..(Len(s) - 1) :
    /\ s[i] \in DashSet
    /\ AllDigits(SubSeq(s, 1, i - 1))
    /\ AllDigits(SubSeq(s, i + 1, Len(s)))

RangeDash(s) == CHOOSE i \in 2..(Len(s) - 1) : s[i] \in DashSet

\* the match object of a matching string: the two captured groups
RangeGroups(s, dash) == <<SubSeq(s, 1, dash - 1), SubSeq(s, dash + 1, Len(s))>>

\* parsePlayerCount without the 'N+' branch
parsePlayerCount_NoPlus(countStr) ==
  IF countStr = <<>> THEN Sentinel
  ELSE
    Let(Trim(countStr), LAMBDA s :
      IF RangeMatch(s)
      THEN Let(RangeGroups(s, RangeDash(s)), LAMBDA rangeMatch :
             [min |-> parseInt(rangeMatch[1]), max |-> parseInt(rangeMatch[2]), open |-> FALSE])
      ELSE Let(parseInt(s), LAMBDA num :
             IF ~isNaN(num) /\ NumToStr(num) = s
             THEN [min |-> num, max |-> num, open |-> FALSE]
             ELSE Sentinel))

parsePlayerCount(countStr) ==
  IF countStr = <<>> THEN Sentinel
  ELSE
    Let(Trim(countStr), LAMBDA s :
      Let(SubSeq(s, 1, Len(s) - 1), LAMBDA numPart :
        Let(parseInt(numPart), LAMBDA plusMin :
          IF s # <<>> /\ s[Len(s)] = "+" /\ NumToStr(plusMin) = numPart
          THEN [min |-> plusMin, max |-> Infinity, open |-> TRUE]
          ELSE IF RangeMatch(s)
          THEN Let(RangeGroups(s, RangeDash(s)), LAMBDA rangeMatch :
                 [min |-> parseInt(rangeMatch[1]),
                  max |-> parseInt(rangeMatch[2]),
                  open |-> FALSE])
          ELSE Let(parseInt(s), LAMBDA num :
                 IF ~isNaN(num) /\ NumToStr(num) = s
                 THEN [min |-> num, max |-> num, open |-> FALSE]
                 ELSE Sentinel))))

----------------------------------------------------------------------------
(* getComplexityName: weights are held in tenths (2.5 is Num(25)) *)

COMPLEXITY_THRESHOLDS == <<15, 25, 35, 45>>
COMPLEXITY_NAMES ==
  << <<"Light">>, <<"Light Medium">>, <<"Medium">>, <<"Medium Heavy">>,
     <<"Heavy">> >>
PLAYING_TIMES ==
  << <<"< 30min">>, <<"30min - 1h">>, <<"1-2h">>, <<"2-3h">>, <<"3-4h">>,
     <<"> 4h">> >>

\* variant of getComplexityName whose thresholds belong to the lower bucket
getComplexityName_Inclusive(score) ==
  IF isNaN(score) \/ JsLe(score, Num(0)) THEN <<>>
  ELSE IF JsLe(score, Num(COMPLEXITY_THRESHOLDS[1])) THEN COMPLEXITY_NAMES[1]
  ELSE IF JsLe(score, Num(COMPLEXITY_THRESHOLDS[2])) THEN COMPLEXITY_NAMES[2]
  ELSE IF JsLe(score, Num(COMPLEXITY_THRESHOLDS[3])) THEN COMPLEXITY_NAMES[3]
  ELSE IF JsLe(score, Num(COMPLEXITY_THRESHOLDS[4])) THEN COMPLEXITY_NAMES[4]
  ELSE COMPLEXITY_NAMES[5]

getComplexityName(score) ==
  IF isNaN(score) \/ JsLe(score, Num(0)) THEN <<>>
  ELSE IF JsLt(score, Num(COMPLEXITY_THRESHOLDS[1])) THEN COMPLEXITY_NAMES[1]
  ELSE IF JsLt(score, Num(COMPLEXITY_THRESHOLDS[2])) THEN COMPLEXITY_NAMES[2]
  ELSE IF JsLt(score, Num(COMPLEXITY_THRESHOLDS[3])) THEN COMPLEXITY_NAMES[3]
  ELSE IF JsLt(score, Num(COMPLEXITY_THRESHOLDS[4])) THEN COMPLEXITY_NAMES[4]
  ELSE COMPLEXITY_NAMES[5]

----------------------------------------------------------------------------
(* FilterState: the object built by getFiltersFromURL / getFiltersFromUI *)

ANY == <<"any">>
NOT_RECOMMENDED == <<"not recommended">>
SORT_NAME == <<"name">>

\* null for selectedMinAge / selectedNumPlays
NoRange == [present |-> FALSE, min |-> Num(0), max |-> Num(0)]
Range(lo, hi) == [present |-> TRUE, min |-> lo, max |-> hi]

DefaultState ==
  [query |-> <<>>, selectedCategories |-> <<>>, selectedMechanics |-> <<>>,
   selectedPlayerFilter |-> ANY, selectedWeight |-> <<>>,
   selectedPlayingTime |-> <<>>, selectedPreviousPlayers |-> <<>>,
   selectedMinAge |-> NoRange, selectedNumPlays |-> NoRange,
   sortBy |-> SORT_NAME, page |-> 1]

----------------------------------------------------------------------------
(* filterGames *)

\* selected.some(v => list.includes(v))
SomeIncluded(selected, list) ==
  \E i \in 1..Len(selected) : Includes(list, selected[i])

\* variant of PlayerEntryMatches that treats 'N+' as the closed range N..Infinity
PlayerEntryMatches_NoOpenRule(entry, targetPlayers, requiredType) ==
  IF entry.count = <<>> \/ entry.type = NOT_RECOMMENDED THEN FALSE
  ELSE IF requiredType # <<>> /\ entry.type # requiredType THEN FALSE
  ELSE Let(parsePlayerCount(entry.count), LAMBDA parsed :
         JsGe(targetPlayers, parsed.min) /\ JsLe(targetPlayers, parsed.max))

\* variant of PlayerEntryMatches that does not compare the tag
PlayerEntryMatches_AnyTag(entry, targetPlayers, requiredType) ==
  IF entry.count = <<>> \/ entry.type = NOT_RECOMMENDED THEN FALSE
  ELSE Let(parsePlayerCount(entry.count), LAMBDA parsed :
         IF parsed.open THEN JsEq(targetPlayers, parsed.min)
         ELSE JsGe(targetPlayers, parsed.min) /\ JsLe(targetPlayers, parsed.max))

\* the callback of game.players.some(...) in filterGames
PlayerEntryMatches(entry, targetPlayers, requiredType) ==
  IF entry.count = <<>> \/ entry.type = NOT_RECOMMENDED THEN FALSE
  ELSE IF requiredType # <<>> /\ entry.type # requiredType THEN FALSE
  ELSE Let(parsePlayerCount(entry.count), LAMBDA parsed :
         IF parsed.open THEN JsEq(targetPlayers, parsed.min)
         ELSE JsGe(targetPlayers, parsed.min) /\ JsLe(targetPlayers, parsed.max))

\* the player block of filterGames: TRUE when the game is not rejected
PlayerFilterPasses(game, selectedPlayerFilter) ==
  IF selectedPlayerFilter = <<>> \/ selectedPlayerFilter = ANY THEN TRUE
  ELSE Let(Split(selectedPlayerFilter, "-"), LAMBDA filterParts :
         Let(Number(filterParts[1]), LAMBDA targetPlayers :
           IF isNaN(targetPlayers) THEN TRUE
           ELSE \E i \in 1..Len(game.players) :
                  PlayerEntryMatches(game.players[i], targetPlayers,
                    IF Len(filterParts) > 1 THEN filterParts[2] ELSE <<>>)))

\* variant of RangeRejects with exclusive bounds
RangeRejects_Exclusive(range, field) ==
  range.present /\ (JsLe(Num(field), range.min) \/ JsGe(Num(field), range.max))

\* selectedMinAge && (field < min || field > max): TRUE when rejected
RangeRejects(range, field) ==
  range.present /\ (JsLt(Num(field), range.min) \/ JsGt(Num(field), range.max))

\* the callback of gamesToFilter.filter(...)
GamePasses(game, filters) ==
  /\ ~(/\ filters.query # <<>>
       /\ ~StrIncludes(toLowerCase(game.name), filters.query)
       /\ ~StrIncludes(toLowerCase(game.description), filters.query))
  /\ ~(/\ Len(filters.selectedCategories) > 0
       /\ ~SomeIncluded(filters.selectedCategories, game.categories))
  /\ ~(/\ Len(filters.selectedMechanics) > 0
       /\ ~SomeIncluded(filters.selectedMechanics, game.mechanics))
  /\ PlayerFilterPasses(game, filters.selectedPlayerFilter)
  /\ ~(/\ Len(filters.selectedWeight) > 0
       /\ Let(getComplexityName(game.weight), LAMBDA gameWeightName :
            gameWeightName = <<>>
            \/ ~Includes(filters.selectedWeight, gameWeightName)))
  /\ ~(/\ Len(filters.selectedPlayingTime) > 0
       /\ ~Includes(filters.selectedPlayingTime, game.playing_time))
  /\ ~(/\ Len(filters.selectedPreviousPlayers) > 0
       /\ ~SomeIncluded(filters.selectedPreviousPlayers, game.previous_players))
  /\ ~RangeRejects(filters.selectedMinAge, game.min_age)
  /\ ~RangeRejects(filters.selectedNumPlays, game.numplays)

\* a filter that returns the items it keeps last first
filterGames_Reversed(gamesToFilter, filters) ==
  Let(SelectSeq(gamesToFilter, LAMBDA game : GamePasses(game, filters)), LAMBDA kept :
    [i \in 1..Len(kept) |-> kept[Len(kept) + 1 - i]])

\* a filter that also drops the first item it keeps
filterGames_DropFirst(gamesToFilter, filters) ==
  Let(SelectSeq(gamesToFilter, LAMBDA game : GamePasses(game, filters)), LAMBDA kept :
    IF kept = <<>> THEN kept ELSE Tail(kept))

filterGames(gamesToFilter, filters) ==
  SelectSeq(gamesToFilter, LAMBDA game : GamePasses(game, filters))

----------------------------------------------------------------------------
(* URL state codec.  URLSearchParams percent-encodes on toString() and     *)
(* decodes on construction, so the query string is held as the map from    *)
(* parameter name to decoded value; an absent name is outside the domain.  *)

NoParams == [k \in {} |-> <<>>]

\* params.get(k) is truthy: the parameter is there and is not ''
HasParam(params, k) == k \in DOMAIN params /\ params[k] # <<>>

\* params.get(k)?.split(',').filter(Boolean) || []
ListParam(params, k) ==
  IF k \in DOMAIN params THEN FilterBoolean(Split(params[k], ",")) ELSE <<>>

\* param ? { min: Number(param.split('-')[0]), max: Number(param.split('-')[1]) } : null
RangeParam(params, k) ==
  IF HasParam(params, k)
  THEN Let(Split(params[k], "-"), LAMBDA parts :
         Range(Number(parts[1]),
               IF Len(parts) > 1 THEN Number(parts[2]) ELSE NaN))
  ELSE NoRange

\* Number(params.get('page')) || 1
PageParam(params) ==
  Let(IF "page" \in DOMAIN params THEN Number(params["page"]) ELSE Num(0),
      LAMBDA n : IF NumTruthy(n) THEN n.v ELSE 1)

getFiltersFromURL(params) ==
  [query |-> IF HasParam(params, "q") THEN params["q"] ELSE <<>>,
   selectedCategories |-> ListParam(params, "categories"),
   selectedMechanics |-> ListParam(params, "mechanics"),
   selectedPlayerFilter |->
     IF HasParam(params, "players") THEN params["players"] ELSE ANY,
   selectedWeight |-> ListParam(params, "weight"),
   selectedPlayingTime |-> ListParam(params, "playing_time"),
   selectedPreviousPlayers |-> ListParam(params, "previous_players"),
   selectedMinAge |-> RangeParam(params, "min_age"),
   selectedNumPlays |-> RangeParam(params, "numplays"),
   sortBy |-> IF HasParam(params, "sort") THEN params["sort"] ELSE SORT_NAME,
   page |-> PageParam(params)]

\* `${range.min}-${range.max}`
RangeToStr(range) == NumToStr(range.min) \o <<"-">> \o NumToStr(range.max)

\* variant of EncodedPairs that writes the sort key and the page always and
\* nothing else
EncodedPairs_AlwaysSortAndPage(filters) ==
  {<<"sort", filters.sortBy>>, <<"page", NumToStr(Num(filters.page))>>}

\* the parameter set written by updateURLWithFilters, as the set of
\* (name, value) pairs that params.set(...) is called with
EncodedPairs(filters) ==
  (IF filters.query # <<>> THEN {<<"q", filters.query>>} ELSE {})
  \cup (IF Len(filters.selectedCategories) > 0
        THEN {<<"categories", Join(filters.selectedCategories, ",")>>} ELSE {})
  \cup (IF Len(filters.selectedMechanics) > 0
        THEN {<<"mechanics", Join(filters.selectedMechanics, ",")>>} ELSE {})
  \cup (IF filters.selectedPlayerFilter # <<>> /\ filters.selectedPlayerFilter # ANY
        THEN {<<"players", filters.selectedPlayerFilter>>} ELSE {})
  \cup (IF Len(filters.selectedWeight) > 0
        THEN {<<"weight", Join(filters.selectedWeight, ",")>>} ELSE {})
  \cup (IF Len(filters.selectedPlayingTime) > 0
        THEN {<<"playing_time", Join(filters.selectedPlayingTime, ",")>>} ELSE {})
  \cup (IF Len(filters.selectedPreviousPlayers) > 0
        THEN {<<"previous_players", Join(filters.selectedPreviousPlayers, ",")>>}
        ELSE {})
  \cup (IF filters.selectedMinAge.present
        THEN {<<"min_age", RangeToStr(filters.selectedMinAge)>>} ELSE {})
  \cup (IF filters.selectedNumPlays.present
        THEN {<<"numplays", RangeToStr(filters.selectedNumPlays)>>} ELSE {})
  \cup (IF filters.sortBy # <<>> /\ filters.sortBy # SORT_NAME
        THEN {<<"sort", filters.sortBy>>} ELSE {})
  \cup (IF filters.page # 0 /\ filters.page > 1
        THEN {<<"page", NumToStr(Num(filters.page))>>} ELSE {})

\* the query string left in the address bar by updateURLWithFilters
updateURLWithFilters(filters) ==
  LET pairs == EncodedPairs(filters) IN
  [k \in {p[1] : p \in pairs} |-> (CHOOSE p \in pairs : p[1] = k)[2]]

----------------------------------------------------------------------------
(* sorting *)

\* the collation rank of a character for localeCompare: white space and
\* punctuation, then digits, then letters without regard to case
CollationSeq ==
  <<" ", ",", "-", "+", "0", "1", "2", "3", "4", "5", "6", "7", "8", "9",
    "a", "b", "c", "d">>

CollationRank(a) ==
  Let(toLowerCase(<<a>>)[1], LAMBDA l :
    IF Includes(CollationSeq, l)
    THEN CHOOSE i \in 1..Len(CollationSeq) : CollationSeq[i] = l
    ELSE Len(CollationSeq) + 1)

\* lexicographic comparison of two rank sequences: -1, 0 or 1
RECURSIVE LexCompare(_, _)
LexCompare(x, y) ==
  IF x = <<>> /\ y = <<>> THEN 0
  ELSE IF x = <<>> THEN -1
  ELSE IF y = <<>> THEN 1
  ELSE IF x[1] < y[1] THEN -1
  ELSE IF x[1] > y[1] THEN 1
  ELSE LexCompare(Tail(x), Tail(y))

\* a.localeCompare(b): the letters decide first, then lower case sorts
\* before upper case
localeCompare(a, b) ==
  Let(LexCompare([i \in 1..Len(a) |-> CollationRank(a[i])],
                 [i \in 1..Len(b) |-> CollationRank(b[i])]), LAMBDA primary :
    IF primary # 0 THEN primary
    ELSE LexCompare([i \in 1..Len(a) |-> IF Includes(UpperSeq, a[i]) THEN 1 ELSE 0],
                    [i \in 1..Len(b) |-> IF Includes(UpperSeq, b[i]) THEN 1 ELSE 0]))

UNRANKED == 999999

\* x || d for a number field x
OrElse(x, d) == IF x = 0 THEN d ELSE x

\* the comparator passed to filteredGames.sort(...)
SortCompare(a, b, sortBy) ==
  CASE sortBy = <<"name">> -> localeCompare(a.name, b.name)
    [] sortBy = <<"rank">> -> OrElse(a.rank, UNRANKED) - OrElse(b.rank, UNRANKED)
    [] sortBy = <<"rating">> -> OrElse(b.rating, 0) - OrElse(a.rating, 0)
    [] sortBy = <<"numowned">> -> OrElse(b.numowned, 0) - OrElse(a.numowned, 0)
    [] sortBy = <<"numrated">> -> OrElse(b.usersrated, 0) - OrElse(a.usersrated, 0)
    [] OTHER -> 0

\* a merge in which an element of the right run precedes the elements of
\* the left run it ties with
RECURSIVE Merge_RightFirst(_, _, _)
Merge_RightFirst(l, r, sortBy) ==
  IF l = <<>> THEN r
  ELSE IF r = <<>> THEN l
  ELSE Let((Len(l) + 1) \div 2, LAMBDA m :
         Let(Cardinality({j \in 1..Len(r) :
                            SortCompare(l[m], r[j], sortBy) >= 0}), LAMBDA k :
           Merge_RightFirst(SubSeq(l, 1, m - 1), SubSeq(r, 1, k), sortBy)
           \o <<l[m]>>
           \o Merge_RightFirst(SubSeq(l, m + 1, Len(l)), SubSeq(r, k + 1, Len(r)), sortBy)))

\* Array.prototype.sort is stable: a merge sort in which an element of
\* the left run precedes the elements of the right run it ties with.  The
\* runs are merged around the middle element of the left run.
RECURSIVE Merge(_, _, _)
Merge(l, r, sortBy) ==
  IF l = <<>> THEN r
  ELSE IF r = <<>> THEN l
  ELSE Let((Len(l) + 1) \div 2, LAMBDA m :
         Let(Cardinality({j \in 1..Len(r) :
                            SortCompare(l[m], r[j], sortBy) > 0}), LAMBDA k :
           Merge(SubSeq(l, 1, m - 1), SubSeq(r, 1, k), sortBy)
           \o <<l[m]>>
           \o Merge(SubSeq(l, m + 1, Len(l)), SubSeq(r, k + 1, Len(r)), sortBy)))

RECURSIVE SortGames(_, _)
SortGames(games, sortBy) ==
  IF Len(games) <= 1 THEN games
  ELSE LET h == Len(games) \div 2 IN
       Merge(SortGames(SubSeq(games, 1, h), sortBy),
             SortGames(SubSeq(games, h + 1, Len(games)), sortBy), sortBy)

----------------------------------------------------------------------------
(* pagination *)

GAMES_PER_PAGE == 48

\* Array.prototype.slice(start, end): a negative index counts from the end
SliceIndex(i, len) ==
  IF i < 0 THEN (IF len + i < 0 THEN 0 ELSE len + i)
  ELSE (IF i > len THEN len ELSE i)

Slice(list, start, end) ==
  SubSeq(list, SliceIndex(start, Len(list)) + 1, SliceIndex(end, Len(list)))

\* updateResults with a page that runs one item into the next page
PageGames_Overlapping(games, page) ==
  LET startIdx == (page - 1) * GAMES_PER_PAGE
      endIdx == startIdx + GAMES_PER_PAGE + 1
  IN Slice(games, startIdx, endIdx)

\* the pageGames of updateResults
PageGames(games, page) ==
  LET startIdx == (page - 1) * GAMES_PER_PAGE
      endIdx == startIdx + GAMES_PER_PAGE
  IN Slice(games, startIdx, endIdx)

\* Math.ceil(filteredGames.length / GAMES_PER_PAGE)
TotalPages(games) == (Len(games) + GAMES_PER_PAGE - 1) \div GAMES_PER_PAGE

----------------------------------------------------------------------------
(* facet setup: the nodes each setup...Filter function puts in the DOM *)

\* the order of Array.prototype.sort() without a comparator (UTF-16 code
\* units), given for the atoms by their first character
CodeUnitSeq ==
  <<" ", "+", ",", "-", "0", "1", "2", "3", "4", "5", "6", "7", "8", "9",
    "A", "Ann", "B", "Bag", "Bob", "C", "Card", "D", "Deck", "Dice",
    "a", "b", "c", "d">>

CodeUnitRank(a) ==
  IF \E i \in 1..Len(CodeUnitSeq) : CodeUnitSeq[i] = a
  THEN CHOOSE i \in 1..Len(CodeUnitSeq) : CodeUnitSeq[i] = a
  ELSE Len(CodeUnitSeq) + 1

StrLess(x, y) ==
  LexCompare([i \in 1..Len(x) |-> CodeUnitRank(x[i])],
             [i \in 1..Len(y) |-> CodeUnitRank(y[i])]) < 0

\* Object.keys(counts).sort() for the set of keys S
RECURSIVE SortStrings(_)
SortStrings(S) ==
  IF S = {} THEN <<>>
  ELSE LET m == CHOOSE x \in S : \A y \in S : y = x \/ StrLess(x, y) \/ ~StrLess(y, x)
       IN <<m>> \o SortStrings(S \ {m})

SeqToSet(list) == {list[i] : i \in 1..Len(list)}

\* the values met in a multi-valued field over the whole collection
FieldValues(games, field) ==
  UNION {SeqToSet(games[i][field]) : i \in 1..Len(games)}

\* setupCategoriesFilter, setupMechanicsFilter, setupPreviousPlayersFilter:
\* one check box per value, in sorted order
ListFacetNodes(games, field) == SortStrings(FieldValues(games, field))

\* the callback of game.players.some(...) in setupPlayersFilter and in
\* updateAllFilterCounts: no rule for open ranges, max is Infinity there
CountEntryMatches(entry, p) ==
  IF entry.type = NOT_RECOMMENDED THEN FALSE
  ELSE Let(parsePlayerCount(entry.count), LAMBDA parsed :
         JsGe(p, parsed.min) /\ JsLe(p, parsed.max))

\* the typeCount callback of setupPlayersFilter
TypeEntryMatches(entry, p, recType) ==
  IF entry.type # recType THEN FALSE
  ELSE Let(parsePlayerCount(entry.count), LAMBDA parsed :
         JsGe(p, parsed.min) /\ JsLe(p, parsed.max))

CountGames(games, Test(_)) == Cardinality({i \in 1..Len(games) : Test(games[i])})

\* the playerCounts set of setupPlayersFilter
SetupPlayerCounts(games) ==
  UNION {
    UNION {
      Let(parsePlayerCount(games[i].players[j].count), LAMBDA parsed :
        IF games[i].players[j].type # NOT_RECOMMENDED /\ JsGt(parsed.min, Num(0))
        THEN parsed.min.v .. (IF isFinite(parsed.max) THEN parsed.max
                              ELSE parsed.min).v
        ELSE {})
      : j \in 1..Len(games[i].players)}
    : i \in 1..Len(games)}

RECURSIVE SortNumbers(_)
SortNumbers(S) ==
  IF S = {} THEN <<>>
  ELSE LET m == CHOOSE x \in S : \A y \in S : x <= y
       IN <<m>> \o SortNumbers(S \ {m})

RECOMMENDATION_TYPES == << <<"best">>, <<"recommended">>, <<"expansion">> >>

\* the items pushed for one player count p: the main option, then the
\* sub-options whose typeCount is positive
PlayerItemsFor(games, p) ==
  LET main == [value |-> NatToStr(p),
               count |-> CountGames(games, LAMBDA game :
                  \E j \in 1..Len(game.players) :
                     CountEntryMatches(game.players[j], Num(p))),
               level |-> 0, parentValue |-> <<>>]
      sub(recType) ==
             [value |-> NatToStr(p) \o <<"-">> \o recType,
              count |-> CountGames(games, LAMBDA game :
                  \E j \in 1..Len(game.players) :
                     TypeEntryMatches(game.players[j], Num(p), recType)),
              level |-> 1, parentValue |-> NatToStr(p)]
  IN <<main>> \o
     SelectSeq([t \in 1..Len(RECOMMENDATION_TYPES) |-> sub(RECOMMENDATION_TYPES[t])],
               LAMBDA item : item.count > 0)

RECURSIVE ConcatAll(_)
ConcatAll(lists) ==
  IF lists = <<>> THEN <<>> ELSE lists[1] \o ConcatAll(Tail(lists))

\* the playerItems array of setupPlayersFilter
setupPlayersFilter(games) ==
  Let(SortNumbers(SetupPlayerCounts(games)), LAMBDA sortedPlayers :
    <<[value |-> ANY, count |-> Len(games), level |-> 0, parentValue |-> <<>>]>>
    \o ConcatAll([n \in 1..Len(sortedPlayers) |->
                    PlayerItemsFor(games, sortedPlayers[n])]))

\* setupWeightFilter: the five names, unless every count is zero
WeightNodes(games) ==
  IF \E i \in 1..Len(games) :
       NumTruthy(games[i].weight) /\ getComplexityName(games[i].weight) # <<>>
  THEN COMPLEXITY_NAMES ELSE <<>>

\* setupPlayingTimeFilter: the six labels, unless every count is zero
PlayingTimeNodes(games) ==
  IF \E i \in 1..Len(games) : Includes(PLAYING_TIMES, games[i].playing_time)
  THEN PLAYING_TIMES ELSE <<>>

\* setupMinAgeFilter: the ageRanges, as [min, max]
AGE_RANGES ==
  << <<0, 100>>, <<0, 4>>, <<0, 6>>, <<0, 8>>, <<0, 10>>, <<0, 12>>,
     <<0, 14>>, <<15, 100>> >>

\* setupNumPlaysFilter: the playRanges, as [min, max]
PLAY_RANGES == << <<0, 9999>>, <<0, 0>>, <<1, 5>>, <<6, 10>>, <<11, 9999>> >>

\* the radio value `${item.min}-${item.max}` given by createRefinementFilter
RangeValue(r) == NatToStr(r[1]) \o <<"-">> \o NatToStr(r[2])

AGE_ANY == RangeValue(AGE_RANGES[1])
PLAYS_ANY == RangeValue(PLAY_RANGES[1])

\* the input values of every facet, in document order
FacetNodes(games) ==
  [categories |-> ListFacetNodes(games, "categories"),
   mechanics |-> ListFacetNodes(games, "mechanics"),
   players |-> Let(setupPlayersFilter(games), LAMBDA items :
                 [i \in 1..Len(items) |-> items[i].value]),
   weight |-> WeightNodes(games),
   playing_time |-> PlayingTimeNodes(games),
   min_age |-> [i \in 1..Len(AGE_RANGES) |-> RangeValue(AGE_RANGES[i])],
   previous_players |-> ListFacetNodes(games, "previous_players"),
   numplays |-> [i \in 1..Len(PLAY_RANGES) |-> RangeValue(PLAY_RANGES[i])]]

----------------------------------------------------------------------------
(* updateAllFilterCounts *)

Occurrences(list, v) == Cardinality({i \in 1..Len(list) : list[i] = v})

\* games.forEach(game => game[field].forEach(x => counts[x]++)), read at v
RECURSIVE ListFacetCount(_, _, _)
ListFacetCount(games, field, v) ==
  IF games = <<>> THEN 0
  ELSE IF Len(games) = 1 THEN Occurrences(games[1][field], v)
  ELSE LET h == Len(games) \div 2 IN
       ListFacetCount(SubSeq(games, 1, h), field, v)
       + ListFacetCount(SubSeq(games, h + 1, Len(games)), field, v)

\* the count of one radio of a ranged facet: the whole list for the
\* default radio, else the games whose field lies in [min, max]
RangeRadioCount(games, field, value, anyValue) ==
  IF value = anyValue THEN Len(games)
  ELSE Let(Split(value, "-"), LAMBDA parts :
         Let(Number(parts[1]), LAMBDA min :
           Let(IF Len(parts) > 1 THEN Number(parts[2]) ELSE NaN, LAMBDA max :
             CountGames(games, LAMBDA game :
               JsGe(Num(game[field]), min) /\ JsLe(Num(game[field]), max)))))

\* the count of one radio of the player facet
PlayerRadioCount(games, value) ==
  IF value = ANY THEN Len(games)
  ELSE Let(Number(value), LAMBDA targetPlayers :
         CountGames(games, LAMBDA game :
           \E j \in 1..Len(game.players) :
              CountEntryMatches(game.players[j], targetPlayers)))

\* variant of updateAllFilterCounts that counts every facet on the fully
\* filtered list, the facet's own constraint kept
updateAllFilterCounts_NoClear(games, dom, filters) ==
  LET kept == filterGames(games, filters) IN
  [categories |-> [v \in SeqToSet(dom.categories) |->
                     ListFacetCount(kept, "categories", v)],
   mechanics |-> [v \in SeqToSet(dom.mechanics) |->
                     ListFacetCount(kept, "mechanics", v)],
   players |-> [v \in SeqToSet(dom.players) |-> PlayerRadioCount(kept, v)],
   weight |-> [v \in SeqToSet(dom.weight) |->
                 CountGames(kept, LAMBDA game :
                   NumTruthy(game.weight) /\ getComplexityName(game.weight) = v)],
   playing_time |-> [v \in SeqToSet(dom.playing_time) |->
                 CountGames(kept, LAMBDA game :
                   game.playing_time # <<>> /\ game.playing_time = v)],
   min_age |-> [v \in SeqToSet(dom.min_age) |->
                 RangeRadioCount(kept, "min_age", v, AGE_ANY)],
   previous_players |-> [v \in SeqToSet(dom.previous_players) |->
                 ListFacetCount(kept, "previous_players", v)],
   numplays |-> [v \in SeqToSet(dom.numplays) |->
                 RangeRadioCount(kept, "numplays", v, PLAYS_ANY)]]

\* the copies {...filters, selectedX: cleared} made for the facets, each
\* with the facet's own constraint cleared
ClearedFilters(filters) ==
  [categories |-> [filters EXCEPT !.selectedCategories = <<>>],
   mechanics |-> [filters EXCEPT !.selectedMechanics = <<>>],
   players |-> [filters EXCEPT !.selectedPlayerFilter = ANY],
   weight |-> [filters EXCEPT !.selectedWeight = <<>>],
   playing_time |-> [filters EXCEPT !.selectedPlayingTime = <<>>],
   min_age |-> [filters EXCEPT !.selectedMinAge = NoRange],
   previous_players |-> [filters EXCEPT !.selectedPreviousPlayers = <<>>],
   numplays |-> [filters EXCEPT !.selectedNumPlays = NoRange]]

\* gamesForCatCount, gamesForMechCount, ... : filterGames on each copy
GamesForCounts(games, filters) ==
  Let(ClearedFilters(filters), LAMBDA cleared :
    [facet \in DOMAIN cleared |-> filterGames(games, cleared[facet])])

\* the counts object handed to updateCountsInDOM for each facet, read at
\* every input of the facet (counts[value] || 0)
updateAllFilterCounts(games, dom, filters) ==
  Let(GamesForCounts(games, filters), LAMBDA gamesFor :
    [categories |-> [v \in SeqToSet(dom.categories) |->
                       ListFacetCount(gamesFor["categories"], "categories", v)],
     mechanics |-> [v \in SeqToSet(dom.mechanics) |->
                       ListFacetCount(gamesFor["mechanics"], "mechanics", v)],
     players |-> [v \in SeqToSet(dom.players) |->
                       PlayerRadioCount(gamesFor["players"], v)],
     weight |-> [v \in SeqToSet(dom.weight) |->
                   CountGames(gamesFor["weight"], LAMBDA game :
                     NumTruthy(game.weight) /\ getComplexityName(game.weight) = v)],
     playing_time |-> [v \in SeqToSet(dom.playing_time) |->
                   CountGames(gamesFor["playing_time"], LAMBDA game :
                     game.playing_time # <<>> /\ game.playing_time = v)],
     min_age |-> [v \in SeqToSet(dom.min_age) |->
                   RangeRadioCount(gamesFor["min_age"], "min_age", v, AGE_ANY)],
     previous_players |-> [v \in SeqToSet(dom.previous_players) |->
                   ListFacetCount(gamesFor["previous_players"],
                                  "previous_players", v)],
     numplays |-> [v \in SeqToSet(dom.numplays) |->
                   RangeRadioCount(gamesFor["numplays"], "numplays", v, PLAYS_ANY)]])

\* the parent of a player sub-option (data-parent-value)
ParentValue(value) == Split(value, "-")[1]

\* the player inputs of level 1
SubNodes(dom) ==
  {dom.players[i] : i \in {j \in 1..Len(dom.players) :
                             Len(Split(dom.players[j], "-")) > 1}}

\* String.prototype.startsWith
StartsWith(s, prefix) ==
  Len(s) >= Len(prefix) /\ SubSeq(s, 1, Len(prefix)) = prefix

\* updateCountsInDOM('facet-players', ...): the sub-options left displayed,
\* decided from the radio that is checked
ShownSubOptions(dom, checkedPlayer) ==
  {v \in SubNodes(dom) :
     /\ \/ checkedPlayer = ParentValue(v)
        \/ /\ \E i \in 1..Len(checkedPlayer) : checkedPlayer[i] = "-"
           /\ StartsWith(checkedPlayer, ParentValue(v) \o <<"-">>)
     /\ checkedPlayer # ANY}

----------------------------------------------------------------------------
(* the form controls *)

SORT_OPTIONS ==
  << <<"name">>, <<"rank">>, <<"rating">>, <<"numowned">>, <<"numrated">> >>

\* the controls as createRefinementFilter, setupSearchBox and setupSorting
\* leave them
InitialUI ==
  [search |-> <<>>, categories |-> {}, mechanics |-> {}, weight |-> {},
   playing_time |-> {}, previous_players |-> {}, players |-> ANY,
   min_age |-> AGE_ANY, numplays |-> PLAYS_ANY, sort |-> SORT_NAME]

\* the check boxes of one facet that updateUIFromState checks
CheckedFrom(selected, facetNodes) ==
  {v \in SeqToSet(selected) : Includes(facetNodes, v)}

\* a radio is checked only when an input with that value exists
RadioFrom(value, facetNodes, before) ==
  IF Includes(facetNodes, value) THEN value ELSE before

\* variant of updateUIFromState that leaves the sort select as it was
updateUIFromState_KeepsSort(state, dom, before) ==
  [search |-> state.query,
   categories |-> CheckedFrom(state.selectedCategories, dom.categories),
   mechanics |-> CheckedFrom(state.selectedMechanics, dom.mechanics),
   weight |-> CheckedFrom(state.selectedWeight, dom.weight),
   playing_time |-> CheckedFrom(state.selectedPlayingTime, dom.playing_time),
   previous_players |->
     CheckedFrom(state.selectedPreviousPlayers, dom.previous_players),
   players |-> RadioFrom(state.selectedPlayerFilter, dom.players, before.players),
   min_age |-> RadioFrom(IF state.selectedMinAge.present
                         THEN RangeToStr(state.selectedMinAge) ELSE AGE_ANY,
                         dom.min_age, before.min_age),
   numplays |-> RadioFrom(IF state.selectedNumPlays.present
                          THEN RangeToStr(state.selectedNumPlays) ELSE PLAYS_ANY,
                          dom.numplays, before.numplays),
   sort |-> before.sort]

updateUIFromState(state, dom, before) ==
  [search |-> state.query,
   categories |-> CheckedFrom(state.selectedCategories, dom.categories),
   mechanics |-> CheckedFrom(state.selectedMechanics, dom.mechanics),
   weight |-> CheckedFrom(state.selectedWeight, dom.weight),
   playing_time |-> CheckedFrom(state.selectedPlayingTime, dom.playing_time),
   previous_players |->
     CheckedFrom(state.selectedPreviousPlayers, dom.previous_players),
   players |-> RadioFrom(state.selectedPlayerFilter, dom.players, before.players),
   min_age |-> RadioFrom(IF state.selectedMinAge.present
                         THEN RangeToStr(state.selectedMinAge) ELSE AGE_ANY,
                         dom.min_age, before.min_age),
   numplays |-> RadioFrom(IF state.selectedNumPlays.present
                          THEN RangeToStr(state.selectedNumPlays) ELSE PLAYS_ANY,
                          dom.numplays, before.numplays),
   sort |-> IF Includes(SORT_OPTIONS, state.sortBy) THEN state.sortBy ELSE <<>>]

\* getSelectedValues(name): the checked inputs, in document order
getSelectedValues(facetNodes, checked) ==
  SelectSeq(facetNodes, LAMBDA v : v \in checked)

\* getSelectedRange(name)
getSelectedRange(value) ==
  IF value = AGE_ANY \/ value = PLAYS_ANY THEN NoRange
  ELSE Let(Split(value, "-"), LAMBDA parts :
         Range(Number(parts[1]),
               IF Len(parts) > 1 THEN Number(parts[2]) ELSE NaN))

getFiltersFromUI(controls, dom, page) ==
  [query |-> Trim(toLowerCase(controls.search)),
   selectedCategories |-> getSelectedValues(dom.categories, controls.categories),
   selectedMechanics |-> getSelectedValues(dom.mechanics, controls.mechanics),
   selectedPlayerFilter |-> IF controls.players = <<>> THEN ANY ELSE controls.players,
   selectedWeight |-> getSelectedValues(dom.weight, controls.weight),
   selectedPlayingTime |->
     getSelectedValues(dom.playing_time, controls.playing_time),
   selectedPreviousPlayers |->
     getSelectedValues(dom.previous_players, controls.previous_players),
   selectedMinAge |-> getSelectedRange(controls.min_age),
   selectedNumPlays |-> getSelectedRange(controls.numplays),
   sortBy |-> IF controls.sort = <<>> THEN SORT_NAME ELSE controls.sort,
   page |-> page]

----------------------------------------------------------------------------
(* the collections the model loads: rows as loadAllGames leaves them *)

Game(id, name, description, categories, mechanics, players, weight, playing_time, min_age, rank, usersrated, numowned, rating, numplays, previous_players) ==
  [id |-> id, name |-> name, description |-> description,
   categories |-> categories, mechanics |-> mechanics, players |-> players,
   weight |-> weight, playing_time |-> playing_time, min_age |-> min_age,
   rank |-> rank, usersrated |-> usersrated, numowned |-> numowned,
   rating |-> rating, numplays |-> numplays,
   previous_players |-> previous_players, tags |-> <<>>, expansions |-> <<>>]

\* one [count, type] pair of game.players
P(count, type) == [count |-> count, type |-> type]

DEFAULT == <<"default">>
BEST == <<"best">>
RECOMMENDED == <<"recommended">>
EXPANSION == <<"expansion">>

Card == <<"Card">>
Dice == <<"Dice">>
Deck == <<"Deck">>
DeckBag == <<"Deck", ",", "Bag">>
Ann == <<"Ann">>
Bob == <<"Bob">>

ItemA ==
  Game(1, <<"A", "b">>, <<"c", "a", "d">>, <<Card>>, <<DeckBag>>,
       <<P(<<"2", "-", "4">>, DEFAULT)>>, Num(20), <<"1-2h">>, 8, 5, 10, 7, 70,
       0, <<>>)
ItemB ==
  Game(2, <<"B", "a">>, <<"d">>, <<Card, Dice>>, <<Deck>>,
       <<P(<<"1">>, DEFAULT), P(<<"1">>, BEST)>>, Num(0), <<"< 30min">>, 12, 0,
       0, 3, 0, 3, <<Ann>>)
ItemC ==
  Game(3, <<"c", "a", "b">>, <<>>, <<Dice>>, <<>>,
       <<P(<<"6", "+">>, DEFAULT)>>, Num(45), <<>>, 15, 2, 10, 7, 80, 12,
       <<Ann, Bob>>)

\* the three items of the end-to-end example
DatasetABC == <<ItemA, ItemB, ItemC>>

ItemD ==
  Game(4, <<"d", "a">>, <<"b">>, <<>>, <<>>,
       <<P(<<"2", "+">>, DEFAULT), P(<<"3">>, NOT_RECOMMENDED)>>, Num(15),
       <<>>, 4, 1, 5, 5, 60, 0, <<>>)
ItemE ==
  Game(5, <<"D", "b">>, <<"a", "b">>, <<>>, <<>>,
       <<P(<<"3">>, RECOMMENDED), P(<<"2">>, BEST)>>, Num(0), <<>>, 10, 0, 0,
       0, 0, 6, <<>>)
ItemF ==
  Game(6, <<"a">>, <<>>, <<>>, <<>>,
       <<P(<<>>, DEFAULT), P(<<"garbage">>, BEST)>>, Num(0), <<>>, 0, 3, 5, 9,
       60, 1, <<>>)

\* open ranges, 'not recommended' entries and unparseable counts
DatasetOpen == <<ItemD, ItemE, ItemF>>

\* the number of items of the paginated collection: one more than a page
PagedSize == 49

\* a collection of two pages: the first 24 items unplayed, the others
\* played once
DatasetPaged ==
  [i \in 1..PagedSize |->
     Game(100 + i, <<"d">> \o NatToStr(i), <<>>, <<>>, <<>>,
          <<P(<<"2">>, DEFAULT)>>, Num(0), <<>>, 8, i, 0, 0, 0,
          IF i <= 24 THEN 0 ELSE 1, <<>>)]

Datasets == {DatasetABC, DatasetOpen, DatasetPaged}

----------------------------------------------------------------------------
(* the query strings a session may start from *)

Params(pairs) == [k \in {p[1] : p \in pairs} |-> (CHOOSE p \in pairs : p[1] = k)[2]]

InitialURLs ==
  { NoParams,
    Params({<<"players", <<"6">>>>}),
    Params({<<"players", <<"3">>>>}),
    Params({<<"players", <<"1", "-", "best">>>>}),
    Params({<<"mechanics", DeckBag>>}),
    Params({<<"categories", Card \o <<",">> \o Dice>>, <<"sort", <<"rank">>>>}),
    Params({<<"min_age", <<"a">>>>}),
    Params({<<"numplays", <<"1", "-", "5">>>>, <<"page", <<"2">>>>}),
    Params({<<"sort", <<"b">>>>, <<"page", <<"-", "1">>>>}),
    Params({<<"page", <<"4">>>>}),
    Params({<<"players", <<"c">>>>, <<"q", <<"A">>>>}),
    Params({<<"categories", Card \o <<",">> \o Dice>>, <<"mechanics", Deck>>,
            <<"min_age", <<"0", "-", "1", "2">>>>}) }

----------------------------------------------------------------------------
(* the handlers *)

\* the number of controls away from their default
ActiveCount(controls) ==
  Cardinality(controls.categories) + Cardinality(controls.mechanics)
  + Cardinality(controls.weight) + Cardinality(controls.playing_time)
  + Cardinality(controls.previous_players)
  + (IF controls.players # ANY THEN 1 ELSE 0)
  + (IF controls.min_age # AGE_ANY THEN 1 ELSE 0)
  + (IF controls.numplays # PLAYS_ANY THEN 1 ELSE 0)
  + (IF controls.sort # SORT_NAME THEN 1 ELSE 0)

MaxActive == 2

\* initializeDatabase has fetched and opened the database and loadAllGames
\* has parsed every row: initializeUI is the next call
StartupLoaded ==
  [step |-> "initializeUI", cause |-> <<"none", 0>>, error |-> <<>>,
   shown |-> <<>>, malformed |-> {}, unparsed |-> {}]

\* the wait of debounce(onFilterChange, 300), in milliseconds
SEARCH_DEBOUNCE == 300

\* the debounce of the search box before any input: let timeout is
\* undefined (0) and no timer is pending.  timers maps the id of each
\* pending timer to the time since it was set, since is the time since the
\* last input event (both stop at the wait), inputs counts the input
\* events and runs the passes triggered since the last input event.
NoTimer ==
  [timeout |-> 0, timers |-> <<>>, since |-> SEARCH_DEBOUNCE, inputs |-> 0,
   runs |-> 0]

\* no pure function is being called on its own
NoCall == [fn |-> "none"]

\* the state objects of history entries: null for the entry the page was
\* opened in, {} as clearAllFilters pushes it, or a FilterState as
\* updateURLWithFilters stores it
NullState == [kind |-> "null"]
EmptyObject == [kind |-> "{}"]
FilterObject(filters) == [kind |-> "filters", of |-> filters]

\* the entries the history of a session may hold
MaxEntries == 2

\* a session whose history is not followed: no back or forward navigation
\* happens in it, so that no entry is ever read
NotFollowed == [entries |-> <<>>, index |-> 0]

\* the history of a page just opened at the query string params
OpenedAt(params) ==
  [entries |-> << [state |-> NullState, url |-> params] >>, index |-> 1]

\* variant of replaceState that adds an entry as pushState does
replaceState_Pushes(h, state, newUrl) ==
  IF h.entries = <<>> THEN h
  ELSE [entries |-> Append(SubSeq(h.entries, 1, h.index),
                           [state |-> state, url |-> newUrl]),
        index |-> h.index + 1]

\* history.replaceState(state, '', newUrl): the current entry is rewritten
replaceState(h, state, newUrl) ==
  IF h.entries = <<>> THEN h
  ELSE [h EXCEPT !.entries[h.index] = [state |-> state, url |-> newUrl]]

\* history.pushState(state, '', newUrl): the entries after the current one
\* are dropped and the new entry becomes the current one
pushState(h, state, newUrl) ==
  IF h.entries = <<>> THEN h
  ELSE [entries |-> Append(SubSeq(h.entries, 1, h.index),
                           [state |-> state, url |-> newUrl]),
        index |-> h.index + 1]

Init ==
  /\ allGames \in Datasets
  /\ url \in InitialURLs
  /\ filteredGames = allGames
  /\ currentPage = 1
  /\ ui = InitialUI
  /\ counts = <<>>
  /\ subVisible = {}
  /\ hits = <<>>
  /\ applied = DefaultState
  /\ setupItems = <<>>
  /\ nodes = <<>>
  /\ last = "loadAllGames"
  /\ pc = "boot"
  /\ startup = StartupLoaded
  /\ search = NoTimer
  /\ call = NoCall
  /\ history = NotFollowed
  /\ pagination = {}
  /\ thrown = {}

\* the pages for which updatePagination renders a button
PageButtons(games, page) ==
  Let(TotalPages(games), LAMBDA totalPages :
    Let(IF page - 2 > 1 THEN page - 2 ELSE 1, LAMBDA startPage :
      Let(IF page + 2 < totalPages THEN page + 2 ELSE totalPages,
          LAMBDA endPage :
            IF totalPages <= 1 THEN {}
            ELSE (IF page > 1 THEN {page - 1} ELSE {})
                 \cup (IF startPage > 1 THEN {1} ELSE {})
                 \cup (startPage .. endPage)
                 \cup (IF endPage < totalPages THEN {totalPages} ELSE {})
                 \cup (IF page < totalPages THEN {page + 1}
                       ELSE {}))))

\* applyFiltersAndSort(filters) followed by updateResults(), with the
\* controls and the page as the caller has set them
Recompute(filters, controls, dom, page) ==
  /\ applied' = filters
  /\ counts' = updateAllFilterCounts(allGames, dom, filters)
  /\ subVisible' = ShownSubOptions(dom, controls.players)
  /\ filteredGames' = SortGames(filterGames(allGames, filters), filters.sortBy)
  /\ hits' = PageGames(filteredGames', page)
  /\ pagination' = PageButtons(filteredGames', page)

\* the sub-fields the facet setup and the filter iterate as arrays
FacetFields == {"categories", "mechanics", "players", "previous_players"}

\* setupFilters completes: forEach is called on these four fields of every
\* item, and a field loadAllGames left as a string or null has no forEach
SetupFiltersCompletes(games, unparsed) ==
  \A i \in 1..Len(games) : \A f \in FacetFields :
    <<games[i].id, f>> \notin unparsed

\* renderGameCard completes for every item of the page: a non-empty
\* game.expansions is mapped, and a string has no map
RenderCompletes(pageGames, unparsed) ==
  \A i \in 1..Len(pageGames) : <<pageGames[i].id, "expansions">> \notin unparsed

\* initializeUI: the facets are set up, the state is read from the URL,
\* shown in the controls and applied
initializeUI ==
  /\ pc = "boot"
  /\ startup.step = "initializeUI"
  /\ SetupFiltersCompletes(allGames, startup.unparsed)
  /\ Let(FacetNodes(allGames), LAMBDA dom :
       Let(getFiltersFromURL(url), LAMBDA initialState :
         Let(updateUIFromState(initialState, dom, InitialUI), LAMBDA controls :
           /\ nodes' = dom
           /\ setupItems' = setupPlayersFilter(allGames)
           /\ ui' = controls
           /\ currentPage' = initialState.page
           /\ Recompute(initialState, controls, dom, initialState.page))))
  /\ RenderCompletes(hits', startup.unparsed)
  /\ pc' = "ready"
  /\ last' = "initializeUI"
  /\ startup' = [startup EXCEPT !.step = "done"]
  /\ UNCHANGED <<allGames, url, search, call, history, thrown>>

\* onFilterChange(): the state is read from the controls, the page is
\* reset, the URL is rewritten and the view recomputed
onFilterChange(controls) ==
  Let([getFiltersFromUI(controls, nodes, currentPage) EXCEPT !.page = 1],
      LAMBDA state :
        /\ ui' = controls
        /\ currentPage' = 1
        /\ url' = updateURLWithFilters(state)
        /\ history' = replaceState(history, FilterObject(state), url')
        /\ Recompute(state, controls, nodes, 1)
        /\ last' = "onFilterChange"
        /\ thrown' = {}
        /\ UNCHANGED <<allGames, setupItems, nodes, pc, startup, call>>)

CheckboxFacets ==
  {"categories", "mechanics", "weight", "playing_time", "previous_players"}

\* updateCountsInDOM leaves a check box displayed unless its count is 0 and
\* it is not checked
CheckboxShown(facet, v) == counts[facet][v] # 0 \/ v \in ui[facet]

\* a click on a displayed check box
ToggleCheckbox ==
  /\ pc = "ready"
  /\ UNCHANGED search
  /\ \E facet \in CheckboxFacets : \E v \in SeqToSet(nodes[facet]) :
       /\ CheckboxShown(facet, v)
       /\ v \in ui[facet] \/ ActiveCount(ui) < MaxActive
       /\ onFilterChange([ui EXCEPT ![facet] =
                            IF v \in @ THEN @ \ {v} ELSE @ \cup {v}])

\* a click on a displayed radio of the player facet
SelectPlayers ==
  /\ pc = "ready"
  /\ UNCHANGED search
  /\ \E v \in SeqToSet(nodes.players) :
       /\ v # ui.players
       /\ v \in SubNodes(nodes) => v \in subVisible
       /\ ui.players # ANY \/ ActiveCount(ui) < MaxActive
       /\ onFilterChange([ui EXCEPT !.players = v])

\* a click on a radio of the min-age or number-of-plays facet
SelectRange ==
  /\ pc = "ready"
  /\ UNCHANGED search
  /\ \E facet \in {"min_age", "numplays"} : \E v \in SeqToSet(nodes[facet]) :
       /\ v # ui[facet]
       /\ ui[facet] \notin {AGE_ANY, PLAYS_ANY} \/ ActiveCount(ui) < MaxActive
       /\ onFilterChange([ui EXCEPT ![facet] = v])

\* a choice in the sort select
ChangeSort ==
  /\ pc = "ready"
  /\ UNCHANGED search
  /\ \E v \in SeqToSet(SORT_OPTIONS) :
       /\ v # ui.sort
       /\ ui.sort # SORT_NAME \/ ActiveCount(ui) < MaxActive
       /\ onFilterChange([ui EXCEPT !.sort = v])

\* goToPage(page), from a pagination button
goToPage ==
  /\ pc = "ready"
  /\ \E page \in pagination :
       Let(getFiltersFromUI(ui, nodes, page), LAMBDA state :
         /\ currentPage' = page
         /\ url' = updateURLWithFilters(state)
         /\ history' = replaceState(history, FilterObject(state), url')
         /\ hits' = PageGames(filteredGames, page)
         /\ pagination' = PageButtons(filteredGames, page))
  /\ last' = "goToPage"
  /\ thrown' = {}
  /\ UNCHANGED <<allGames, filteredGames, ui, counts, subVisible, applied,
                 setupItems, nodes, pc, startup, search, call>>

\* updateClearButtonVisibility: the Clear filters button is displayed
isAnyFilterActive(filters) ==
  /\ filters # EmptyObject
  /\ \/ filters.query # <<>>
     \/ Len(filters.selectedCategories) > 0
     \/ Len(filters.selectedMechanics) > 0
     \/ (filters.selectedPlayerFilter # <<>> /\ filters.selectedPlayerFilter # ANY)
     \/ Len(filters.selectedWeight) > 0
     \/ Len(filters.selectedPlayingTime) > 0
     \/ Len(filters.selectedPreviousPlayers) > 0
     \/ filters.selectedMinAge.present
     \/ filters.selectedNumPlays.present

\* clearAllFilters: the query string is dropped, then the state is read
\* back from the URL, shown and applied
clearAllFilters ==
  /\ pc = "ready"
  /\ isAnyFilterActive(applied)
  /\ Len(history.entries) < MaxEntries
  /\ Let(getFiltersFromURL(NoParams), LAMBDA state :
       Let(updateUIFromState(state, nodes, ui), LAMBDA controls :
         /\ url' = NoParams
         /\ history' = pushState(history, EmptyObject, NoParams)
         /\ ui' = controls
         /\ currentPage' = state.page
         /\ Recompute(state, controls, nodes, state.page)))
  /\ last' = "clearAllFilters"
  /\ thrown' = {}
  /\ UNCHANGED <<allGames, setupItems, nodes, pc, startup, search, call>>

\* undefined, as a field of {} is read: the text 'undefined' once it is put
\* in a selector, an input value or a select value
UNDEFINED == <<"undefined">>

\* the fields updateUIFromState reads in the object {}: no list has a
\* length, no range is truthy.  The undefined page is written 0, a value
\* that neither Number(...) || 1 nor a pagination button gives currentPage
FieldsOfEmpty ==
  [query |-> UNDEFINED, selectedCategories |-> <<>>,
   selectedMechanics |-> <<>>, selectedPlayerFilter |-> UNDEFINED,
   selectedWeight |-> <<>>, selectedPlayingTime |-> <<>>,
   selectedPreviousPlayers |-> <<>>, selectedMinAge |-> NoRange,
   selectedNumPlays |-> NoRange, sortBy |-> UNDEFINED, page |-> 0]

\* the popstate listener with a complete FilterState: it is shown in the
\* controls and applied
popstateApplies(state) ==
  Let(updateUIFromState(state, nodes, ui), LAMBDA controls :
    /\ ui' = controls
    /\ currentPage' = state.page
    /\ Recompute(state, controls, nodes, state.page)
    /\ thrown' = {})

\* the popstate listener with the object {}: updateUIFromState clears the
\* controls, hides the sub-options and leaves currentPage undefined, then
\* applyFiltersAndSort reaches filterGames, which reads the length of the
\* undefined selectedMechanics for the first item of the (non-empty)
\* collection
popstateThrows ==
  /\ ui' = updateUIFromState(FieldsOfEmpty, nodes, ui)
  /\ currentPage' = FieldsOfEmpty.page
  /\ subVisible' = {}
  /\ applied' = EmptyObject
  /\ thrown' = {"TypeError"}
  /\ UNCHANGED <<counts, filteredGames, hits, pagination>>

\* the browser's back or forward button: the neighbouring entry becomes the
\* current one, the address bar shows its URL and the popstate listener
\* runs with  event.state || getFiltersFromURL()
popstate ==
  /\ pc = "ready"
  /\ \E to \in {history.index - 1, history.index + 1} :
       /\ to \in 1..Len(history.entries)
       /\ history' = [history EXCEPT !.index = to]
       /\ url' = history.entries[to].url
       /\ Let(history.entries[to], LAMBDA entry :
            IF entry.state.kind = "{}" THEN popstateThrows
            ELSE popstateApplies(IF entry.state.kind = "null"
                                 THEN getFiltersFromURL(entry.url)
                                 ELSE entry.state.of))
  /\ last' = "popstate"
  /\ UNCHANGED <<allGames, setupItems, nodes, pc, startup, search, call>>

Next ==
  \/ initializeUI
  \/ ToggleCheckbox
  \/ SelectPlayers
  \/ SelectRange
  \/ ChangeSort
  \/ goToPage
  \/ clearAllFilters

Spec == Init /\ [][Next]_vars

----------------------------------------------------------------------------
(* a session with the browser's back and forward buttons *)

\* in a session whose history is followed the user keeps at most this many
\* controls away from their default
SessionActive == 1

\* and sorts by name or by rank
SessionSorts == {SORT_NAME, <<"rank">>}

Restrained ==
  /\ ActiveCount(ui') <= SessionActive
  /\ ui'.sort \in SessionSorts

\* the page is opened without a query string on the paginated collection
\* or on the collection with player sub-options, or from a link to the
\* sub-option '3-best', which that collection does not offer
SessionStarts ==
  { <<DatasetPaged, NoParams>>, <<DatasetOpen, NoParams>>,
    <<DatasetOpen, Params({<<"players", <<"3", "-", "best">>>>})>> }

InitSession ==
  /\ \E start \in SessionStarts :
       /\ allGames = start[1]
       /\ url = start[2]
  /\ filteredGames = allGames
  /\ currentPage = 1
  /\ ui = InitialUI
  /\ counts = <<>>
  /\ subVisible = {}
  /\ hits = <<>>
  /\ applied = DefaultState
  /\ setupItems = <<>>
  /\ nodes = <<>>
  /\ last = "loadAllGames"
  /\ pc = "boot"
  /\ startup = StartupLoaded
  /\ search = NoTimer
  /\ call = NoCall
  /\ history = OpenedAt(url)
  /\ pagination = {}
  /\ thrown = {}

NextSession ==
  \/ initializeUI
  \/ ToggleCheckbox /\ Restrained
  \/ SelectPlayers /\ Restrained
  \/ ChangeSort /\ Restrained
  \/ goToPage
  \/ clearAllFilters
  \/ popstate

SpecSession == InitSession /\ [][NextSession]_vars

----------------------------------------------------------------------------
(* the search box: input events through debounce(onFilterChange, 300) *)

\* the input events of one session
MaxInputs == 3

\* the clock advances by the wait divided by this
TicksPerWait == 3

\* the texts typed in the search box
SearchTexts == {<<>>, <<"a">>, <<"A">>, <<"A", "b">>, <<"d">>}

\* clearTimeout(id): the timer, if it is pending, is cancelled
clearTimeout(timers, id) == [t \in DOMAIN timers \ {id} |-> timers[t]]

\* setTimeout(later, wait): a new timer is pending under the id
setTimeout(timers, id) ==
  [t \in DOMAIN timers \cup {id} |-> IF t = id THEN 0 ELSE timers[t]]

\* the debounced function without its clearTimeout: every input event
\* leaves one more timer pending
executedFunction_NoCancel(s) ==
  [s EXCEPT !.timers = setTimeout(s.timers, s.inputs + 1),
            !.timeout = s.inputs + 1,
            !.inputs = s.inputs + 1,
            !.since = 0,
            !.runs = 0]

\* executedFunction: clearTimeout(timeout); timeout = setTimeout(later, wait)
executedFunction(s) ==
  [s EXCEPT !.timers = setTimeout(clearTimeout(s.timers, s.timeout), s.inputs + 1),
            !.timeout = s.inputs + 1,
            !.inputs = s.inputs + 1,
            !.since = 0,
            !.runs = 0]

\* an input event of the search box: the text changes and the debounced
\* handler is called
inputSearch ==
  /\ pc = "ready"
  /\ search.inputs < MaxInputs
  /\ \E text \in SearchTexts :
       /\ text # ui.search
       /\ ui' = [ui EXCEPT !.search = text]
  /\ search' = executedFunction(search)
  /\ UNCHANGED <<allGames, filteredGames, currentPage, url, counts, subVisible,
                 hits, applied, setupItems, nodes, last, pc, startup, call,
                 history, pagination, thrown>>

Later(ms) == IF ms >= SEARCH_DEBOUNCE THEN SEARCH_DEBOUNCE ELSE ms

\* time passes
tick ==
  /\ pc = "ready"
  /\ \/ search.since < SEARCH_DEBOUNCE
     \/ \E t \in DOMAIN search.timers : search.timers[t] < SEARCH_DEBOUNCE
  /\ search' =
       [search EXCEPT
          !.since = Later(@ + SEARCH_DEBOUNCE \div TicksPerWait),
          !.timers = [t \in DOMAIN @ |-> Later(@[t] + SEARCH_DEBOUNCE \div TicksPerWait)]]
  /\ UNCHANGED <<allGames, filteredGames, currentPage, url, ui, counts,
                 subVisible, hits, applied, setupItems, nodes, last, pc,
                 startup, call, history, pagination, thrown>>

\* a timer that has waited its 300 ms fires and is no longer pending;
\* later begins with clearTimeout(timeout)
timerFires ==
  /\ pc = "ready"
  /\ \E t \in DOMAIN search.timers :
       /\ search.timers[t] >= SEARCH_DEBOUNCE
       /\ search' = [search EXCEPT
                       !.timers = clearTimeout(clearTimeout(@, t), search.timeout),
                       !.runs = @ + 1]

\* later: clearTimeout(timeout); func(...args), which is onFilterChange
later ==
  /\ timerFires
  /\ onFilterChange(ui)

\* the collection A, B, C is loaded; the page is opened without a query
\* string, or with a search text
InitSearch ==
  /\ allGames = DatasetABC
  /\ url \in {NoParams, Params({<<"q", <<"A">>>>}), Params({<<"q", <<"d">>>>})}
  /\ filteredGames = allGames
  /\ currentPage = 1
  /\ ui = InitialUI
  /\ counts = <<>>
  /\ subVisible = {}
  /\ hits = <<>>
  /\ applied = DefaultState
  /\ setupItems = <<>>
  /\ nodes = <<>>
  /\ last = "loadAllGames"
  /\ pc = "boot"
  /\ startup = StartupLoaded
  /\ search = NoTimer
  /\ call = NoCall
  /\ history = NotFollowed
  /\ pagination = {}
  /\ thrown = {}

NextSearch ==
  \/ initializeUI
  \/ inputSearch
  \/ tick
  \/ later

SpecSearch == InitSearch /\ [][NextSearch]_vars

\* the event loop runs a timer that is due, and time passes
SpecSearchFair == SpecSearch /\ WF_search(tick) /\ WF_search(timerFires)

----------------------------------------------------------------------------
(* typing in the search box between pagination clicks and sort changes *)

\* the paginated collection is loaded and the page is opened without a
\* query string
InitTyping ==
  /\ allGames = DatasetPaged
  /\ url = NoParams
  /\ filteredGames = allGames
  /\ currentPage = 1
  /\ ui = InitialUI
  /\ counts = <<>>
  /\ subVisible = {}
  /\ hits = <<>>
  /\ applied = DefaultState
  /\ setupItems = <<>>
  /\ nodes = <<>>
  /\ last = "loadAllGames"
  /\ pc = "boot"
  /\ startup = StartupLoaded
  /\ search = NoTimer
  /\ call = NoCall
  /\ history = OpenedAt(url)
  /\ pagination = {}
  /\ thrown = {}

NextTyping ==
  \/ initializeUI
  \/ inputSearch
  \/ tick
  \/ later
  \/ ChangeSort /\ Restrained
  \/ goToPage

SpecTyping == InitTyping /\ [][NextTyping]_vars

----------------------------------------------------------------------------
(* startup: initializeDatabase, from the fetch to initializeUI or showError *)

\* the HTTP statuses of the responses, with their status texts
StatusText(status) ==
  CASE status = 200 -> <<"OK">>
    [] status = 403 -> <<"Forbidden">>
    [] status = 404 -> <<"Not Found">>
    [] status = 500 -> <<"Internal Server Error">>

Statuses == {200, 403, 404, 500}

\* the message of the TypeError a rejected fetch carries; it depends on the
\* browser
NetworkMessages ==
  {<<"Failed to fetch">>, <<"NetworkError when attempting to fetch resource.">>,
   <<"Load failed">>}

\* the messages of the errors gunzipSync throws on bytes that are not a
\* complete gzip stream
GunzipMessages == {<<"invalid ", "gzip", " data">>, <<"unexpected EOF">>}

\* the message of the error thrown for bytes that are not a database
DatabaseMessages == {<<"file is not a database">>}

\* `Failed to fetch database: ${response.status} ${response.statusText}`
HttpErrorMessage(status) ==
  <<"Failed to fetch", " database: ">> \o NumToStr(Num(status)) \o <<" ">>
  \o StatusText(status)

\* an exception reaches the catch block of initializeDatabase
Throw(cause, message) ==
  startup' = [startup EXCEPT !.step = "catch", !.cause = cause, !.error = message]

\* the response of a fetch: the request fails, or a response arrives and
\* response.ok is status 200
Respond(status, kind, notOkStep) ==
  IF status = 200 THEN startup' = [startup EXCEPT !.step = "gunzip"]
  ELSE IF notOkStep = "throw" THEN Throw(<<kind, status>>, HttpErrorMessage(status))
  ELSE startup' = [startup EXCEPT !.step = notOkStep]

\* the variables of the application, which a call of a pure function
\* leaves alone
appVars == <<allGames, filteredGames, currentPage, url, ui, counts, subVisible,
             hits, applied, setupItems, nodes, last, pc, startup, search,
             history, pagination, thrown>>

\* the module-level state when the script has been evaluated and
\* initializeDatabase is about to fetch the database
Unloaded ==
  /\ allGames = <<>>
  /\ filteredGames = <<>>
  /\ currentPage = 1
  /\ url = NoParams
  /\ ui = InitialUI
  /\ counts = <<>>
  /\ subVisible = {}
  /\ hits = <<>>
  /\ applied = DefaultState
  /\ setupItems = <<>>
  /\ nodes = <<>>
  /\ last = "none"
  /\ pc = "boot"
  /\ startup = [StartupLoaded EXCEPT !.step = "fetch"]
  /\ search = NoTimer
  /\ history = NotFollowed
  /\ pagination = {}
  /\ thrown = {}

allButStartup == <<allGames, filteredGames, currentPage, url, ui, counts,
                   subVisible, hits, applied, setupItems, nodes, last, pc,
                   search, call, history, pagination, thrown>>

\* let response = await fetch(dbUrl): on the development host a response
\* that is not ok leads to the legacy file name
fetchDatabase ==
  /\ startup.step = "fetch"
  /\ \/ \E message \in NetworkMessages : Throw(<<"network", 0>>, message)
     \/ \E status \in Statuses : \E isDev \in BOOLEAN :
          Respond(status, "http", IF isDev THEN "legacy" ELSE "throw")
  /\ UNCHANGED allButStartup

\* response = await fetch(legacyDbUrl)
fetchLegacy ==
  /\ startup.step = "legacy"
  /\ \/ \E message \in NetworkMessages : Throw(<<"network", 0>>, message)
     \/ \E status \in Statuses : Respond(status, "http", "throw")
  /\ UNCHANGED allButStartup

\* fflate.gunzipSync(bytes)
gunzipSync ==
  /\ startup.step = "gunzip"
  /\ \/ startup' = [startup EXCEPT !.step = "database"]
     \/ \E message \in GunzipMessages : Throw(<<"gunzip", 0>>, message)
  /\ UNCHANGED allButStartup

\* db = new SQL.Database(dbData)
openDatabase ==
  /\ startup.step = "database"
  /\ \/ startup' = [startup EXCEPT !.step = "loadAllGames"]
     \/ \E message \in DatabaseMessages : Throw(<<"database", 0>>, message)
  /\ UNCHANGED allButStartup

\* the six columns parsed by loadAllGames, in the order it parses them
ListFields ==
  <<"categories", "mechanics", "players", "tags", "previous_players",
    "expansions">>

FieldIndex(f) == CHOOSE k \in 1..Len(ListFields) : ListFields[k] = f

\* the games table holds the rows of A, B, C; for each row, the columns
\* whose text is not JSON: none or one
RawTables ==
  [1..Len(DatasetABC) -> {{}} \cup {{ListFields[k]} : k \in 1..Len(ListFields)}]

\* the columns of a row that the try block does not reach: the first one
\* whose JSON.parse throws, and every one after it
Unreached(bad) ==
  {ListFields[k] : k \in {k \in 1..Len(ListFields) :
                           \E b \in bad : FieldIndex(b) <= k}}

\* a column as the database returns it: a string
RawText(value, isBad) ==
  IF isBad THEN [text |-> "not JSON"] ELSE [text |-> "JSON", of |-> value]

\* one row as loadAllGames pushes it
LoadRow(game, bad) ==
  [f \in DOMAIN game |->
     IF f \in Unreached(bad) THEN RawText(game[f], f \in bad) ELSE game[f]]

\* loadAllGames: every row is pushed, whether its try block completed or not
loadAllGames ==
  /\ startup.step = "loadAllGames"
  /\ \E table \in RawTables :
       /\ allGames' = [i \in 1..Len(table) |-> LoadRow(DatasetABC[i], table[i])]
       /\ startup' =
            [startup EXCEPT
               !.step = "initializeUI",
               !.malformed = UNION {{<<DatasetABC[i].id, f>> : f \in table[i]} :
                                    i \in 1..Len(table)},
               !.unparsed = UNION {{<<DatasetABC[i].id, f>> : f \in Unreached(table[i])} :
                                   i \in 1..Len(table)}]
  /\ filteredGames' = allGames'
  /\ last' = "loadAllGames"
  /\ UNCHANGED <<currentPage, url, ui, counts, subVisible, hits, applied,
                 setupItems, nodes, pc, search, call, history, pagination,
                 thrown>>

\* the page initializeUI renders first
FirstPage ==
  Let(getFiltersFromURL(url), LAMBDA initialState :
    PageGames(SortGames(filterGames(allGames, initialState), initialState.sortBy),
              initialState.page))

\* initializeUI throws a TypeError: in setupFilters, or in updateResults
\* when a card is rendered
initializeUIThrows ==
  /\ startup.step = "initializeUI"
  /\ pc = "boot"
  /\ IF SetupFiltersCompletes(allGames, startup.unparsed)
     THEN ~RenderCompletes(FirstPage, startup.unparsed)
     ELSE TRUE
  /\ Throw(<<"initializeUI", 0>>, <<"is not a function">>)
  /\ UNCHANGED allButStartup

SETUP_GUIDANCE == <<"This usually means: ... run the setup script ...">>
CORRUPTED_GUIDANCE == <<"The database file appears to be corrupted. ...">>

\* the userMessage of the catch block
userMessage(message) ==
  <<"Failed to load your board game database. ">>
  \o (IF StrIncludes(message, <<"4", "0", "4">>)
         \/ StrIncludes(message, <<"Failed to fetch">>)
      THEN SETUP_GUIDANCE
      ELSE IF StrIncludes(message, <<"gzip">>)
      THEN CORRUPTED_GUIDANCE
      ELSE <<"Technical error: ">> \o message)

\* the catch block: showError(userMessage) replaces the content of #hits
showError ==
  /\ startup.step = "catch"
  /\ startup' = [startup EXCEPT !.step = "failed",
                                 !.shown = userMessage(startup.error)]
  /\ hits' = <<>>
  /\ UNCHANGED <<allGames, filteredGames, currentPage, url, ui, counts,
                 subVisible, applied, setupItems, nodes, last, pc, search, call,
                 history, pagination, thrown>>

InitStartup ==
  /\ Unloaded
  /\ call = NoCall

NextStartup ==
  \/ fetchDatabase
  \/ fetchLegacy
  \/ gunzipSync
  \/ openDatabase
  \/ loadAllGames
  \/ initializeUI
  \/ initializeUIThrows
  \/ showError

SpecStartup == InitStartup /\ [][NextStartup]_vars

----------------------------------------------------------------------------
(* the pure functions called on their own *)

\* the longest filtered list paginated on its own: the 130 items of three
\* pages
MaxListLen == 130

\* a filtered list of len items, each standing for its position
ListOf(len) == [i \in 1..len |-> i]

\* updateResults slices page `page` of a filtered list; a page past the
\* last one is sliced too
InitPage ==
  /\ Unloaded
  /\ \E len \in 0..MaxListLen : \E page \in 1..(TotalPages(ListOf(len)) + 1) :
       call = [fn |-> "updateResults", games |-> ListOf(len), page |-> page,
               done |-> FALSE, out |-> <<>>]

updateResults ==
  /\ call.fn = "updateResults"
  /\ ~call.done
  /\ call' = [call EXCEPT !.done = TRUE, !.out = PageGames(call.games, call.page)]
  /\ UNCHANGED appVars

SpecPage == InitPage /\ [][updateResults]_vars

\* the longest count string parsed on its own
MaxCountLen == 3

\* the characters of the count strings: digits, the hyphen, the en dash,
\* the plus sign, the space and text that is none of these
CountAtoms == {"0", "3", "4", "5", "6", "-", "endash", "+", " ", "garbage"}

CountStrings == UNION {[1..n -> CountAtoms] : n \in 0..MaxCountLen}

InitParse ==
  /\ Unloaded
  /\ \E countStr \in CountStrings :
       call = [fn |-> "parsePlayerCount", countStr |-> countStr,
               done |-> FALSE, out |-> Sentinel]

parsePlayerCountCall ==
  /\ call.fn = "parsePlayerCount"
  /\ ~call.done
  /\ call' = [call EXCEPT !.done = TRUE, !.out = parsePlayerCount(call.countStr)]
  /\ UNCHANGED appVars

SpecParse == InitParse /\ [][parsePlayerCountCall]_vars

\* the longest filtered list sorted on its own
MaxSortLen == 3

\* the values of the numeric sort fields are missing (0), small, the value
\* the comparator gives an unranked item, and the next one
UnrankedNext == UNRANKED + 1

\* the items by name and value: names that differ in case only, equal
\* names with different values, equal values with different names
SortKinds ==
  {<<<<"a">>, 0>>, <<<<"A">>, 1>>, <<<<"a">>, 1>>, <<<<"b">>, 2>>,
   <<<<"b">>, UNRANKED>>, <<<<"a">>, UnrankedNext>>}

\* the items of a filtered list: position i of the list has id i
SortItem(i, name, v) ==
  [id |-> i, name |-> name, rank |-> v, rating |-> v, numowned |-> v,
   usersrated |-> v]

SortLists ==
  UNION {{[i \in 1..n |-> SortItem(i, kinds[i][1], kinds[i][2])] :
            kinds \in [1..n -> SortKinds]} :
         n \in 0..MaxSortLen}

\* the values of the sort select, and one it does not offer
SortKeys == SeqToSet(SORT_OPTIONS) \cup {<<"b">>}

InitSort ==
  /\ Unloaded
  /\ \E games \in SortLists : \E sortBy \in SortKeys :
       call = [fn |-> "sort", games |-> games, sortBy |-> sortBy,
               done |-> FALSE, out |-> <<>>]

\* filteredGames.sort(comparator) of applyFiltersAndSort
sortCall ==
  /\ call.fn = "sort"
  /\ ~call.done
  /\ call' = [call EXCEPT !.done = TRUE, !.out = SortGames(call.games, call.sortBy)]
  /\ UNCHANGED appVars

SpecSort == InitSort /\ [][sortCall]_vars

\* the count strings of the items given to filterGames on its own: at most
\* this many characters, and the ranges '3-5' and '5-3'
MaxSpecLen == 2

SpecAtoms == {"0", "3", "5", "-", "+", "garbage"}

FilterSpecs ==
  UNION {[1..n -> SpecAtoms] : n \in 0..MaxSpecLen}
  \cup {<<"3", "-", "5">>, <<"5", "-", "3">>}

\* the player counts of the player filters given to filterGames: 0 to this
MaxTarget == 2

\* the weights of the items, in tenths: -0.1 to this, NaN and Infinity
MaxWeight == 50

WeightValues == {Num(w) : w \in -1..MaxWeight} \cup {NaN, Infinity}

\* an item with one [count, type] pair, or with the weight, and nothing else
FilterItem(players, weight) ==
  Game(1, <<"a">>, <<>>, <<>>, <<>>, players, weight, <<>>, 0, 0, 0, 0, 0, 0, <<>>)

\* the selections of the weight facet, in document order
WeightSelections ==
  {SelectSeq(COMPLEXITY_NAMES, LAMBDA name : name \in S) :
     S \in SUBSET SeqToSet(COMPLEXITY_NAMES)}

\* filterGames is given one item and a state with a player filter, or one
\* item and a state with a weight selection
FilterCalls ==
  {<<FilterItem(<<P(spec, type)>>, Num(0)),
     [DefaultState EXCEPT !.selectedPlayerFilter = NatToStr(n) \o tag]>> :
     spec \in FilterSpecs, type \in {DEFAULT, BEST}, n \in 0..MaxTarget,
     tag \in {<<>>, <<"-">> \o BEST}}
  \cup
  {<<FilterItem(<<>>, weight), [DefaultState EXCEPT !.selectedWeight = sel]>> :
     weight \in WeightValues, sel \in WeightSelections}

InitFilter ==
  /\ Unloaded
  /\ \E c \in FilterCalls :
       call = [fn |-> "filterGames", games |-> <<c[1]>>, filters |-> c[2],
               done |-> FALSE, out |-> <<>>]

filterGamesCall ==
  /\ call.fn = "filterGames"
  /\ ~call.done
  /\ call' = [call EXCEPT !.done = TRUE,
                          !.out = filterGames(call.games, call.filters)]
  /\ UNCHANGED appVars

SpecFilter == InitFilter /\ [][filterGamesCall]_vars

----------------------------------------------------------------------------
(* vocabulary of the properties *)

Ids(games) == {games[i].id : i \in 1..Len(games)}

\* the token of Main(n) for a player count n >= 1
IsMainToken(t) == t # <<>> /\ AllDigits(t) /\ DecVal(t) >= 1

ConcreteTags == {DEFAULT, BEST, RECOMMENDED, EXPANSION}

\* the token 'n-tag' of Sub(n, tag) for a player count n >= 1 and a
\* concrete recommendation tag
IsSubToken(t) ==
  /\ Len(t) >= 3
  /\ t[Len(t) - 1] = "-"
  /\ IsMainToken(SubSeq(t, 1, Len(t) - 2))
  /\ <<t[Len(t)]>> \in ConcreteTags

SubCount(t) == DecVal(SubSeq(t, 1, Len(t) - 2))
SubTag(t) == <<t[Len(t)]>>

\* a parsed range contains n: min <= n <= max when closed, n = min when open
RangeContains(parsed, n) ==
  IF parsed.open THEN parsed.min = Num(n)
  ELSE /\ parsed.min.k = "num" /\ parsed.max.k = "num"
       /\ parsed.min.v <= n /\ n <= parsed.max.v

\* the item offers player count n under some tag other than 'not recommended'
OffersMain(game, n) ==
  \E j \in 1..Len(game.players) :
    /\ game.players[j].type # NOT_RECOMMENDED
    /\ RangeContains(parsePlayerCount(game.players[j].count), n)

\* the item offers player count n under exactly this tag
OffersSub(game, n, tag) ==
  \E j \in 1..Len(game.players) :
    /\ game.players[j].type = tag
    /\ RangeContains(parsePlayerCount(game.players[j].count), n)

\* the items that pass every constraint of the applied state but the
\* player filter
PassOthers == Ids(filterGames(allGames, [applied EXCEPT !.selectedPlayerFilter = ANY]))

OnlyPlayers(token) == [DefaultState EXCEPT !.selectedPlayerFilter = token]

\* C1: with player filter Main(n) an item is kept iff some entry of it has
\* a tag other than 'not recommended' and a parsed range containing n (an
\* open range 'N+' contains only N); on A, B, C Main(6) keeps exactly C and
\* Main(3) keeps exactly A.
C1_MainFilter ==
  pc = "ready" =>
    /\ IsMainToken(applied.selectedPlayerFilter) =>
         \A i \in 1..Len(allGames) :
           allGames[i].id \in Ids(filteredGames)
           <=> /\ allGames[i].id \in PassOthers
               /\ OffersMain(allGames[i], DecVal(applied.selectedPlayerFilter))
    /\ allGames = DatasetABC /\ applied = OnlyPlayers(<<"6">>)
         => filteredGames = <<ItemC>>
    /\ allGames = DatasetABC /\ applied = OnlyPlayers(<<"3">>)
         => filteredGames = <<ItemA>>

C1_Witness ==
  /\ pc = "ready"
  /\ allGames = DatasetABC
  /\ applied = OnlyPlayers(<<"6">>)
  /\ filteredGames = <<ItemC>>

\* C2: with player filter Sub(n, tag), carried as the token 'n-tag', an
\* item is kept iff some entry of it has exactly that tag and a parsed
\* range containing n; on A, B, C Sub(1, 'best') keeps exactly B.
C2_SubFilter ==
  pc = "ready" =>
    /\ IsSubToken(applied.selectedPlayerFilter) =>
         \A i \in 1..Len(allGames) :
           allGames[i].id \in Ids(filteredGames)
           <=> /\ allGames[i].id \in PassOthers
               /\ OffersSub(allGames[i], SubCount(applied.selectedPlayerFilter),
                            SubTag(applied.selectedPlayerFilter))
    /\ allGames = DatasetABC /\ applied = OnlyPlayers(<<"1", "-", "best">>)
         => filteredGames = <<ItemB>>

C2_Witness ==
  /\ pc = "ready"
  /\ allGames = DatasetABC
  /\ applied = OnlyPlayers(<<"1", "-", "best">>)
  /\ filteredGames = <<ItemB>>

\* a multi-select group passes when nothing is selected or the selection
\* shares a value with the item
GroupPasses(selected, values) ==
  SeqToSet(selected) = {} \/ SeqToSet(selected) \cap values # {}

\* a range constraint passes when the range is absent or min <= field <= max
RangePasses(range, field) ==
  ~range.present \/ (range.min.v <= field /\ field <= range.max.v)

\* the ranges of the state are absent or numeric
NumericRanges(S) ==
  /\ S.selectedMinAge.min.k = "num" /\ S.selectedMinAge.max.k = "num"
  /\ S.selectedNumPlays.min.k = "num" /\ S.selectedNumPlays.max.k = "num"

\* every enabled constraint of S holds of the item
SatisfiesAll(game, S) ==
  /\ \/ S.query = <<>>
     \/ StrIncludes(toLowerCase(game.name), S.query)
     \/ StrIncludes(toLowerCase(game.description), S.query)
  /\ GroupPasses(S.selectedCategories, SeqToSet(game.categories))
  /\ GroupPasses(S.selectedMechanics, SeqToSet(game.mechanics))
  /\ GroupPasses(S.selectedPlayingTime, {game.playing_time})
  /\ GroupPasses(S.selectedPreviousPlayers, SeqToSet(game.previous_players))
  /\ GroupPasses(S.selectedWeight, {getComplexityName(game.weight)} \ {<<>>})
  /\ PlayerFilterPasses(game, S.selectedPlayerFilter)
  /\ RangePasses(S.selectedMinAge, game.min_age)
  /\ RangePasses(S.selectedNumPlays, game.numplays)

ViewOf(d, S) == PageGames(SortGames(filterGames(d, S), S.sortBy), S.page)

\* S is a FilterState of the data model: a page >= 1, ranges absent or
\* closed with min <= max, a known sort key, a player filter Any, Main or Sub
WellFormedState(S) ==
  /\ S.page >= 1
  /\ NumericRanges(S)
  /\ S.selectedMinAge.min.v <= S.selectedMinAge.max.v
  /\ S.selectedNumPlays.min.v <= S.selectedNumPlays.max.v
  /\ Includes(SORT_OPTIONS, S.sortBy)
  /\ \/ S.selectedPlayerFilter = ANY
     \/ IsMainToken(S.selectedPlayerFilter)
     \/ IsSubToken(S.selectedPlayerFilter)

\* C4: for every FilterState S, the state read back from the parameters
\* written for S shows the same filtered, sorted and paginated result as S
\* on every collection, facet values containing a comma included.
C4_RoundTrip ==
  pc = "ready" /\ WellFormedState(applied) =>
    \A d \in Datasets :
      ViewOf(d, getFiltersFromURL(updateURLWithFilters(applied)))
        = ViewOf(d, applied)

\* the text is 'min-max' with two decimal numbers
IsRangeText(t) ==
  LET parts == Split(t, "-") IN
  /\ Len(parts) = 2
  /\ parts[1] # <<>> /\ AllDigits(parts[1])
  /\ parts[2] # <<>> /\ AllDigits(parts[2])

ParamOr(k, d) == IF k \in DOMAIN url THEN url[k] ELSE d

\* C5: reading the URL never keeps a junk value: a min_age or numplays
\* value that is not 'min-max' gives an absent range, a page that is not a
\* positive integer gives 1, an unknown sort key gives 'name', a players
\* value that is neither a number nor 'number-tag' gives Any.
C5_DecodeDefaults ==
  last = "initializeUI" =>
    /\ ~IsRangeText(ParamOr("min_age", <<>>)) => ~applied.selectedMinAge.present
    /\ ~IsRangeText(ParamOr("numplays", <<>>)) => ~applied.selectedNumPlays.present
    /\ ~IsMainToken(ParamOr("page", <<>>)) => applied.page = 1
    /\ ~Includes(SORT_OPTIONS, ParamOr("sort", <<>>)) => applied.sortBy = SORT_NAME
    /\ LET t == ParamOr("players", <<>>) IN
       ~(IsMainToken(t) \/ IsSubToken(t)) => applied.selectedPlayerFilter = ANY

\* list[1] , list[2] , ... built from the left
RECURSIVE CommaJoined(_)
CommaJoined(list) ==
  IF Len(list) = 1 THEN list[1]
  ELSE CommaJoined(SubSeq(list, 1, Len(list) - 1)) \o <<",">> \o list[Len(list)]

\* the parameter k is written iff the field is away from its default, and
\* then holds the text
WrittenIff(params, k, nonDefault, text) ==
  /\ k \in DOMAIN params <=> nonDefault
  /\ nonDefault => params[k] = text

\* C6: updateURLWithFilters writes a parameter only for a field away from
\* its default, multi-value groups comma-joined and ranges as 'min-max';
\* the default state writes no parameter at all.
C6_EncodeOmitsDefaults ==
  pc = "ready" =>
    LET S == applied
        params == updateURLWithFilters(S)
    IN
    /\ WrittenIff(params, "q", S.query # <<>>, S.query)
    /\ WrittenIff(params, "categories", S.selectedCategories # <<>>,
                  CommaJoined(S.selectedCategories))
    /\ WrittenIff(params, "mechanics", S.selectedMechanics # <<>>,
                  CommaJoined(S.selectedMechanics))
    /\ WrittenIff(params, "players", S.selectedPlayerFilter # ANY,
                  S.selectedPlayerFilter)
    /\ WrittenIff(params, "weight", S.selectedWeight # <<>>,
                  CommaJoined(S.selectedWeight))
    /\ WrittenIff(params, "playing_time", S.selectedPlayingTime # <<>>,
                  CommaJoined(S.selectedPlayingTime))
    /\ WrittenIff(params, "previous_players", S.selectedPreviousPlayers # <<>>,
                  CommaJoined(S.selectedPreviousPlayers))
    /\ WrittenIff(params, "min_age", S.selectedMinAge.present,
                  NumToStr(S.selectedMinAge.min) \o <<"-">>
                    \o NumToStr(S.selectedMinAge.max))
    /\ WrittenIff(params, "numplays", S.selectedNumPlays.present,
                  NumToStr(S.selectedNumPlays.min) \o <<"-">>
                    \o NumToStr(S.selectedNumPlays.max))
    /\ WrittenIff(params, "sort", S.sortBy # SORT_NAME, S.sortBy)
    /\ WrittenIff(params, "page", S.page > 1, NumToStr(Num(S.page)))
    /\ S = DefaultState => params = NoParams
    /\ last \in {"onFilterChange", "clearAllFilters"} => url = params

C6_Witness ==
  /\ last = "onFilterChange"
  /\ applied.selectedCategories = <<Card, Dice>>
  /\ applied.page = 1 /\ applied.sortBy = SORT_NAME
  /\ url = Params({<<"categories", <<"Card", ",", "Dice">> >>})

\* the number of items returned when the node is the player filter and the
\* other constraints of S are kept
SelectingYields(S, node) ==
  Len(filterGames(allGames, [S EXCEPT !.selectedPlayerFilter = node]))

\* C7: for every player facet node the count written by
\* updateAllFilterCounts, and the initial count given by
\* setupPlayersFilter, equals the number of items filterGames returns when
\* that node is the player filter and the other constraints are kept.
C7_PlayerCountsMatchFilter ==
  pc = "ready" =>
    /\ \A v \in SeqToSet(nodes.players) :
         counts.players[v] = SelectingYields(applied, v)
    /\ \A i \in 1..Len(setupItems) :
         setupItems[i].count = SelectingYields(DefaultState, setupItems[i].value)

NonPlayerFacets ==
  {"categories", "mechanics", "weight", "playing_time", "previous_players",
   "min_age", "numplays"}

\* S with the constraint of one facet group cleared
ClearGroup(S, facet) ==
  CASE facet = "categories" -> [S EXCEPT !.selectedCategories = <<>>]
    [] facet = "mechanics" -> [S EXCEPT !.selectedMechanics = <<>>]
    [] facet = "weight" -> [S EXCEPT !.selectedWeight = <<>>]
    [] facet = "playing_time" -> [S EXCEPT !.selectedPlayingTime = <<>>]
    [] facet = "previous_players" -> [S EXCEPT !.selectedPreviousPlayers = <<>>]
    [] facet = "min_age" -> [S EXCEPT !.selectedMinAge = NoRange]
    [] facet = "numplays" -> [S EXCEPT !.selectedNumPlays = NoRange]
    [] facet = "players" -> [S EXCEPT !.selectedPlayerFilter = ANY]

InBucket(field, buckets, v) ==
  \E i \in 1..Len(buckets) :
    RangeValue(buckets[i]) = v /\ buckets[i][1] <= field /\ field <= buckets[i][2]

\* the item holds candidate value v of the facet
FacetHolds(game, facet, v) ==
  CASE facet \in {"categories", "mechanics", "previous_players"} ->
         v \in SeqToSet(game[facet])
    [] facet = "weight" -> getComplexityName(game.weight) = v
    [] facet = "playing_time" -> game.playing_time = v
    [] facet = "min_age" -> InBucket(game.min_age, AGE_RANGES, v)
    [] facet = "numplays" -> InBucket(game.numplays, PLAY_RANGES, v)
    [] facet = "players" ->
         \/ v = ANY
         \/ IsMainToken(v) /\ OffersMain(game, DecVal(v))
         \/ IsSubToken(v) /\ OffersSub(game, SubCount(v), SubTag(v))

\* C8: for every non-player facet group G and candidate value v, the count
\* written by updateAllFilterCounts is the number of items that pass the
\* applied state with only G's own constraint cleared and that hold v.
C8_ClearThenCount ==
  pc = "ready" =>
    \A facet \in NonPlayerFacets : \A v \in SeqToSet(nodes[facet]) :
      counts[facet][v] =
        Cardinality({i \in 1..Len(allGames) :
                       /\ GamePasses(allGames[i], ClearGroup(applied, facet))
                       /\ FacetHolds(allGames[i], facet, v)})

C8_Witness ==
  /\ pc = "ready"
  /\ allGames = DatasetABC
  /\ applied.selectedCategories = <<Card>>
  /\ applied.selectedNumPlays.present
  /\ counts.categories[Dice] = 1
  /\ counts.categories[Card] = 1
  /\ Ids(filteredGames) = {2}

\* C9: for every facet group, the player facet included, and every
\* candidate value v, the count shown for v is at least the number of
\* displayed items that hold v.
C9_CountAtLeastDisplayed ==
  pc = "ready" =>
    \A facet \in NonPlayerFacets \cup {"players"} :
      \A v \in SeqToSet(nodes[facet]) :
        counts[facet][v] >=
          Cardinality({i \in 1..Len(filteredGames) :
                         FacetHolds(filteredGames[i], facet, v)})

\* the last page of a list of the given length
LastPage(len) ==
  IF len <= GAMES_PER_PAGE THEN 1
  ELSE (len + GAMES_PER_PAGE - 1) \div GAMES_PER_PAGE

Clamp(page, len) ==
  IF page < 1 THEN 1 ELSE IF page > LastPage(len) THEN LastPage(len) ELSE page

\* C10: a page number outside the available range is clamped before
\* slicing: the items shown are those of the clamped page, and the page is
\* never empty while the filtered list is not.
C10_PageClamped ==
  pc = "ready" =>
    /\ hits = PageGames(filteredGames, Clamp(currentPage, Len(filteredGames)))
    /\ Len(filteredGames) > 0 => hits # <<>>

\* the pages of a list, first to last, as updateResults slices them
AllPages(games) == [p \in 1..TotalPages(games) |-> PageGames(games, p)]

Paged == call.fn = "updateResults" /\ call.done

\* C11: the pages 1..ceil(L/48) of a filtered list of L items are the
\* consecutive slices [(p-1)*48, p*48) of the sorted list: page p holds the
\* items at these positions in order, every item is on exactly one page,
\* every page but the last holds 48 items and the last holds
\* L - 48*(ceil(L/48) - 1); of 130 items page 1 holds 48 and page 3 holds 34.
C11_ConsecutiveSlices ==
  Paged =>
    LET games == call.games
        L == Len(games)
        T == (L + 47) \div 48
        p == call.page
        first == (p - 1) * 48
    IN /\ T = TotalPages(games)
       /\ p <= T =>
            /\ Len(call.out) = (IF p < T THEN 48 ELSE L - 48 * (T - 1))
            /\ \A i \in 1..Len(call.out) : call.out[i] = games[first + i]
       /\ ConcatAll(AllPages(games)) = games
       /\ \A j \in 1..L :
            Cardinality({q \in 1..T : games[j] \in SeqToSet(AllPages(games)[q])}) = 1
       /\ L = 130 /\ p = 1 => Len(call.out) = 48
       /\ L = 130 /\ p = 3 => Len(call.out) = 34

C11_Witness ==
  /\ Paged
  /\ Len(call.games) = 130
  /\ call.page = 3
  /\ Len(call.out) = 34
  /\ call.out[1] = 97

Parsed == call.fn = "parsePlayerCount" /\ call.done

\* the decimal numeral of a natural number: digits, no leading zero
IsNumeral(s) == s # <<>> /\ AllDigits(s) /\ (Len(s) = 1 \/ s[1] # "0")

\* s is 'N+'
IsPlusForm(s) == Len(s) >= 2 /\ s[Len(s)] = "+" /\ IsNumeral(SubSeq(s, 1, Len(s) - 1))

\* s is 'N-M' with the hyphen at position i
IsRangeAt(s, i) ==
  /\ s[i] = "-"
  /\ IsNumeral(SubSeq(s, 1, i - 1))
  /\ IsNumeral(SubSeq(s, i + 1, Len(s)))

Closed(n, m) == [min |-> Num(n), max |-> Num(m), open |-> FALSE]

\* C12: parsePlayerCount returns {N, N, false} for a decimal count 'N',
\* {N, Infinity, true} for 'N+' and {N, M, false} for a range 'N-M' with
\* N <= M; '4' gives {4, 4, false}, '3-5' gives {3, 5, false} and '6+' gives
\* {6, Infinity, true}.
C12_ParseGrammar ==
  Parsed =>
    LET s == call.countStr IN
      /\ IsNumeral(s) => call.out = Closed(DecVal(s), DecVal(s))
      /\ IsPlusForm(s) =>
           call.out = [min |-> Num(DecVal(SubSeq(s, 1, Len(s) - 1))),
                       max |-> Infinity, open |-> TRUE]
      /\ \A i \in 2..(Len(s) - 1) :
           IsRangeAt(s, i) /\ DecVal(SubSeq(s, 1, i - 1)) <= DecVal(SubSeq(s, i + 1, Len(s)))
             => call.out = Closed(DecVal(SubSeq(s, 1, i - 1)),
                                  DecVal(SubSeq(s, i + 1, Len(s))))
      /\ s = <<"4">> => call.out = Closed(4, 4)
      /\ s = <<"3", "-", "5">> => call.out = Closed(3, 5)
      /\ s = <<"6", "+">> => call.out = [min |-> Num(6), max |-> Infinity, open |-> TRUE]

C12_Witness ==
  /\ Parsed
  /\ call.countStr = <<"6", "+">>
  /\ call.out = [min |-> Num(6), max |-> Infinity, open |-> TRUE]

\* s is 'N', 'N+' or 'N-M' with N <= M
InGrammar(s) ==
  \/ IsNumeral(s)
  \/ IsPlusForm(s)
  \/ \E i \in 2..(Len(s) - 1) :
       /\ IsRangeAt(s, i)
       /\ DecVal(SubSeq(s, 1, i - 1)) <= DecVal(SubSeq(s, i + 1, Len(s)))

\* C13: for every input that is not 'N', 'N+' or 'N-M' with N <= M (the
\* empty string, 'garbage', the reversed range '5-3') parsePlayerCount
\* returns exactly the sentinel {0, 0, false}.
C13_SentinelOtherwise ==
  Parsed /\ ~InGrammar(call.countStr) => call.out = Sentinel

\* the items that pass every constraint of the applied state but the text
\* constraint
PassNonText == Ids(filterGames(allGames, [applied EXCEPT !.query = <<>>]))

\* the lower-cased name or the lower-cased description contains the
\* lower-cased query
TextMatches(game, query) ==
  \/ StrIncludes(toLowerCase(game.name), toLowerCase(query))
  \/ StrIncludes(toLowerCase(game.description), toLowerCase(query))

\* C14: the text constraint is case-insensitive for every query the applied
\* state holds, read from the search box or decoded from the q parameter:
\* an item is kept iff it passes the other constraints and the query is
\* empty or the lower-cased name or description contains the lower-cased
\* query.
C14_TextCaseInsensitive ==
  pc = "ready" =>
    \A i \in 1..Len(allGames) :
      allGames[i].id \in Ids(filteredGames)
      <=> /\ allGames[i].id \in PassNonText
          /\ applied.query = <<>> \/ TextMatches(allGames[i], applied.query)

Sorted == call.fn = "sort" /\ call.done

\* the value of the field a numeric sort key reads
SortField(game, sortBy) ==
  CASE sortBy = <<"rank">> -> game.rank
    [] sortBy = <<"rating">> -> game.rating
    [] sortBy = <<"numowned">> -> game.numowned
    [] sortBy = <<"numrated">> -> game.usersrated

DescendingKeys == {<<"rating">>, <<"numowned">>, <<"numrated">>}

\* C15: the filtered items are ordered by the selected key with the missing
\* values last: for 'rank' ascending, every unranked item (rank 0) after
\* every ranked item whatever its rank; for 'rating', 'numowned' and
\* 'numrated' descending, every item with the value 0 after every item with
\* a positive value.
C15_MissingLast ==
  Sorted =>
    \A i \in 1..Len(call.out) : \A j \in (i + 1)..Len(call.out) :
      LET x == SortField(call.out[i], call.sortBy)
          y == SortField(call.out[j], call.sortBy)
      IN /\ call.sortBy = <<"rank">> =>
              /\ ~(x = 0 /\ y # 0)
              /\ x # 0 /\ y # 0 => x <= y
         /\ call.sortBy \in DescendingKeys =>
              /\ ~(x = 0 /\ y > 0)
              /\ x >= y

\* C16: sorting is stable for every sort key, an unknown key included: two
\* items whose keys compare equal keep the relative order they have in the
\* filtered sequence, the result holds the same items, and an unknown key
\* leaves the sequence as it is.
C16_StableSort ==
  Sorted =>
    /\ Len(call.out) = Len(call.games)
    /\ SeqToSet(call.out) = SeqToSet(call.games)
    /\ \A i \in 1..Len(call.out) : \A j \in (i + 1)..Len(call.out) :
         SortCompare(call.out[i], call.out[j], call.sortBy) = 0
           => call.out[i].id < call.out[j].id
    /\ call.sortBy \notin SeqToSet(SORT_OPTIONS) => call.out = call.games

\* three items, the first and the last with the same rating, the second
\* with a higher one: the second moves to the front and the tie keeps its
\* order
C16_Witness ==
  /\ Sorted
  /\ call.sortBy = <<"rating">>
  /\ Len(call.games) = 3
  /\ call.games[1].rating = 1 /\ call.games[2].rating = 2 /\ call.games[3].rating = 1
  /\ call.out[1].id = 2 /\ call.out[2].id = 1 /\ call.out[3].id = 3

\* the position of the item with this id in the loaded collection
IndexOfId(id) == CHOOSE i \in 1..Len(allGames) : allGames[i].id = id

\* C17: a parse failure in one multi-valued sub-field of a row is isolated
\* by loadAllGames: the item stays in the collection, that field is an
\* empty list, every other sub-field is parsed into a list, and the UI
\* initialisation that follows does not fail.
C17_ParseFailureIsolated ==
  last # "none" =>
    /\ \A x \in startup.malformed :
         /\ x[1] \in Ids(allGames)
         /\ x \notin startup.unparsed
         /\ allGames[IndexOfId(x[1])][x[2]] = <<>>
    /\ \A i \in 1..Len(allGames) : \A f \in SeqToSet(ListFields) :
         <<allGames[i].id, f>> \notin startup.malformed
           => <<allGames[i].id, f>> \notin startup.unparsed
    /\ startup.cause[1] # "initializeUI"

\* the failures of the dataset load: no response, a response that is not
\* ok, bytes that do not decompress, bytes that are not a database
LoadFailures ==
  {<<"network", 0>>, <<"gunzip", 0>>, <<"database", 0>>}
  \cup {<<"http", status>> : status \in Statuses \ {200}}

FailureClass(cause) ==
  CASE cause = <<"http", 404>> -> "NotFound"
    [] cause[1] \in {"gunzip", "database"} -> "Decode"
    [] OTHER -> "Transport"

\* the messages the error of a failure may carry
FailureMessages(cause) ==
  CASE cause[1] = "network" -> NetworkMessages
    [] cause[1] = "gunzip" -> GunzipMessages
    [] cause[1] = "database" -> DatabaseMessages
    [] OTHER -> {HttpErrorMessage(cause[2])}

\* C18: a failed dataset load is fatal to startup: loadAllGames and
\* initializeUI have not run and an error is shown; and no failure of
\* another class (NotFound: HTTP 404; Transport: another HTTP status or no
\* response; Decode: decompression or database failure) is given the
\* guidance shown for this one.
C18_FatalAndClassified ==
  startup.step = "failed" /\ startup.cause \in LoadFailures =>
    /\ allGames = <<>> /\ last = "none" /\ pc = "boot"
    /\ startup.shown # <<>>
    /\ \A other \in LoadFailures :
         FailureClass(other) # FailureClass(startup.cause)
           => \A message \in FailureMessages(other) :
                userMessage(message) # startup.shown

\* C19: filtering is idempotent and recomputation is deterministic:
\* filtering the filtered items again with the same state changes nothing,
\* and applying the same state to the result of applyFiltersAndSort yields
\* the same filtered and sorted sequence.
C19_Idempotent ==
  pc = "ready" =>
    Let(filterGames(allGames, applied), LAMBDA once :
      /\ filterGames(once, applied) = once
      /\ filteredGames = SortGames(once, applied.sortBy)
      /\ SortGames(filterGames(filteredGames, applied), applied.sortBy) = filteredGames)

C19_Witness ==
  /\ pc = "ready"
  /\ last = "onFilterChange"
  /\ allGames = DatasetABC
  /\ applied.selectedCategories = <<Dice>>
  /\ filteredGames = <<ItemB, ItemC>>

TimerPending == DOMAIN search.timers # {}

\* a pass runs in this step
PassRuns == search'.runs = search.runs + 1

\* an input event arrives in this step
InputArrives == search'.inputs = search.inputs + 1

\* a pass runs only when 300 ms have passed since the last input event,
\* and an input event leaves exactly its own timer pending, just set
DebounceStep ==
  /\ PassRuns => search.since >= SEARCH_DEBOUNCE /\ last' = "onFilterChange"
  /\ InputArrives => /\ DOMAIN search'.timers = {search'.timeout}
                      /\ search'.timers[search'.timeout] = 0

\* at most one timer is pending, and at most one pass has run since the
\* last input event, after which no timer is pending
DebounceInv ==
  /\ Cardinality(DOMAIN search.timers) <= 1
  /\ search.runs <= 1
  /\ search.runs = 1 => ~TimerPending

\* C20: text-input events are coalesced by a trailing-edge debounce of
\* 300 ms: an input event cancels the pending timer and starts a new one,
\* so at most one timer is pending; no pass runs before 300 ms have passed
\* since the last input event; at most one pass runs after an input event,
\* and after the last input event of a burst a pass does run.
C20_Debounce ==
  /\ []DebounceInv
  /\ [][DebounceStep]_vars
  /\ (TimerPending ~> (search.runs = 1 /\ ~TimerPending))

\* three input events less than 300 ms apart have triggered one pass, which
\* applied the text typed last, lower-cased
C20_Witness ==
  /\ search.inputs = 3
  /\ search.runs = 1
  /\ ~TimerPending
  /\ last = "onFilterChange"
  /\ ui.search = <<"A", "b">>
  /\ applied.query = <<"a", "b">>

----------------------------------------------------------------------------
(* the session: control events, Clear filters, back and forward *)

\* a complete FilterState: every field of the default state is there
IsFilterState(x) == DOMAIN x = DOMAIN DefaultState

\* C21: once the collection is loaded, every control event other than a
\* text input (facet toggle, sort, pagination click, Clear filters, back,
\* forward) is handled by a recompute that completes without a runtime
\* failure, on every entry the application created, and a back or forward
\* recompute applies a complete FilterState
C21_ControlEventsComplete ==
  pc = "ready" =>
    /\ thrown = {}
    /\ last = "popstate" => IsFilterState(applied)

\* C22: after a load from a URL without parameters, whatever the user does,
\* the current page is a page of the filtered list: a whole number from 1
\* to max(1, ceil(|filteredGames| / GAMES_PER_PAGE))
C22_PageInRange ==
  pc = "ready" =>
    /\ currentPage >= 1
    /\ currentPage <= LastPage(Len(filteredGames))

\* the player count n of the applied player filter Main(n) or Sub(n, tag),
\* 0 when the filter is Any or no such token
AppliedCount ==
  Let(applied.selectedPlayerFilter, LAMBDA t :
    IF IsMainToken(t) THEN DecVal(t)
    ELSE IF IsSubToken(t) THEN SubCount(t) ELSE 0)

\* C23: after every recompute that completed, a sub-option node Sub(n, tag)
\* of the player facet is displayed exactly when the applied player filter
\* is Main(n) or Sub(n, t) of the same n, and no sub-option is displayed
\* when the filter is Any
C23_SubOptionsFollowApplied ==
  (pc = "ready" /\ thrown = {} /\ IsFilterState(applied)) =>
    \A v \in SubNodes(nodes) :
      v \in subVisible <=> DecVal(ParentValue(v)) = AppliedCount

----------------------------------------------------------------------------
(* filterGames on its own: unparseable counts, weights *)

\* the count string is none of 'N', 'N+', 'N-M' and parsePlayerCount
\* answers the sentinel {0, 0, false}
Unparseable(s) == ~InGrammar(s) /\ parsePlayerCount(s) = Sentinel

\* the token of a player filter Main(n) or Sub(n, tag) with any whole
\* n >= 0, as a FilterState carries it
IsTargetToken(t) ==
  Let(Split(t, "-"), LAMBDA parts :
    /\ parts[1] # <<>> /\ AllDigits(parts[1])
    /\ Len(parts) = 1 \/ (Len(parts) = 2 /\ parts[2] \in ConcreteTags))

\* C24: an item all of whose count strings fail to parse is excluded by
\* filterGames under every player filter Main(n) or Sub(n, tag), whatever
\* the target n the state carries
C24_SentinelMatchesNoTarget ==
  (/\ call.fn = "filterGames" /\ call.done
   /\ IsTargetToken(call.filters.selectedPlayerFilter)
   /\ call.games[1].players # <<>>
   /\ \A j \in 1..Len(call.games[1].players) :
        Unparseable(call.games[1].players[j].count))
  => call.out = <<>>

\* the bucket of a weight above 0: one more than the thresholds it has
\* reached
BucketOf(w) ==
  IF w.k = "inf" THEN Len(COMPLEXITY_NAMES)
  ELSE 1 + Cardinality({i \in 1..Len(COMPLEXITY_THRESHOLDS) :
                          COMPLEXITY_THRESHOLDS[i] <= w.v})

\* the position of a bucket name in Light .. Heavy
NameIndex(name) == CHOOSE i \in 1..Len(COMPLEXITY_NAMES) : COMPLEXITY_NAMES[i] = name

\* the weight is known: a number above 0
KnownWeight(w) == w.k = "inf" \/ (w.k = "num" /\ w.v > 0)

\* C25: getComplexityName maps a weight above 0 to the one bucket given by
\* the thresholds 1.5, 2.5, 3.5, 4.5 (a weight equal to a threshold is in
\* the higher bucket, and the bucket never decreases when the weight grows)
\* and a weight that is 0, negative or NaN to no bucket; filterGames keeps
\* every item under the empty weight selection, and under a non-empty one
\* keeps exactly the items whose bucket is selected, so none of unknown
\* weight
C25_WeightBuckets ==
  (call.fn = "filterGames" /\ call.done /\ call.games[1].players = <<>>) =>
    Let(call.games[1].weight, LAMBDA w :
      /\ KnownWeight(w) =>
           /\ getComplexityName(w) = COMPLEXITY_NAMES[BucketOf(w)]
           /\ \A v \in WeightValues :
                (KnownWeight(v) /\ JsLe(v, w)) =>
                  NameIndex(getComplexityName(v)) <= NameIndex(getComplexityName(w))
      /\ ~KnownWeight(w) => getComplexityName(w) = <<>>
      /\ call.filters.selectedWeight = <<>> => call.out = call.games
      /\ call.filters.selectedWeight # <<>> =>
           (call.out # <<>> <=>
              (/\ KnownWeight(w)
               /\ Includes(call.filters.selectedWeight,
                           COMPLEXITY_NAMES[BucketOf(w)]))))

\* a weight of exactly 2.5 is kept under the selection Medium
C25_Witness ==
  /\ call.fn = "filterGames" /\ call.done
  /\ call.games[1].weight = Num(COMPLEXITY_THRESHOLDS[2])
  /\ call.filters.selectedWeight = <<COMPLEXITY_NAMES[3]>>
  /\ call.out = call.games

----------------------------------------------------------------------------
(* the loaded collection *)

\* the items filterGames keeps stand in the order of the loaded
\* collection, and the displayed list holds exactly these items
SourceOrderKept ==
  (pc = "ready" /\ IsFilterState(applied)) =>
    Let(filterGames(allGames, applied), LAMBDA kept :
      /\ \A i \in 1..(Len(kept) - 1) :
           IndexOfId(kept[i].id) < IndexOfId(kept[i + 1].id)
      /\ thrown = {} =>
           /\ Len(filteredGames) = Len(kept)
           /\ Ids(filteredGames) = Ids(kept))

\* C26: no operation changes the loaded collection: through every filter,
\* facet count, sort, pagination click, Clear filters, back and forward,
\* allGames keeps its items and their order; filterGames gives a new
\* sequence in source order and sorting reorders only that sequence
C26_CollectionUnchanged ==
  [] SourceOrderKept /\ [][allGames' = allGames]_vars

\* after a back navigation the displayed list is sorted by rank into an
\* order other than the order of the collection, which still stands
C26_Witness ==
  /\ pc = "ready"
  /\ last = "popstate"
  /\ thrown = {}
  /\ applied.sortBy = <<"rank">>
  /\ Len(filteredGames) = Len(allGames)
  /\ filteredGames # allGames
  /\ allGames = DatasetOpen

----------------------------------------------------------------------------
(* the view, the URL and the history entry after an event handler *)

\* the state object the current history entry holds
EntryState == history.entries[history.index].state

\* the URL, the history entry, the displayed list and the current page are
\* those of the one filter state S
DeriveFrom(S) ==
  /\ url = updateURLWithFilters(S)
  /\ history.entries[history.index].url = url
  /\ filteredGames = SortGames(filterGames(allGames, S), S.sortBy)
  /\ currentPage = S.page
  /\ hits = PageGames(filteredGames, currentPage)

\* C27: at the end of every handler that persists a state (onFilterChange,
\* goToPage), the URL and history entry, the filtered and sorted list shown
\* and the current page all derive from the filter state the history entry
\* holds, also after a pagination click made while typed text is not yet
\* applied
C27_ViewMatchesURL ==
  (pc = "ready" /\ last \in {"onFilterChange", "goToPage"} /\ thrown = {})
    => /\ EntryState.kind = "filters"
       /\ DeriveFrom(EntryState.of)

----------------------------------------------------------------------------
(* a debounce timer firing after another event has recomputed the view *)

\* the filters of a state, the page left aside
FiltersOf(S) == [S EXCEPT !.page = 1]

\* the view has been computed with what the controls hold, the text of the
\* search box included
ViewHoldsText == IsFilterState(applied) /\ FiltersOf(applied) = getFiltersFromUI(ui, nodes, 1)

\* one text has been typed since the page was opened without a query, it is
\* not empty and the view has been computed with it although its timer is
\* still pending: an event other than the timer has recomputed the view
RecomputedSinceInput ==
  /\ search.inputs = 1
  /\ search.runs = 0
  /\ ui.search # <<>>
  /\ ViewHoldsText

\* C28: a debounce timer that fires after an intervening event has already
\* recomputed the view with the text of the search box changes neither the
\* applied filters nor the current page
C28_TimerKeepsPage ==
  [][(PassRuns /\ RecomputedSinceInput)
       => /\ FiltersOf(applied') = FiltersOf(applied)
          /\ filteredGames' = filteredGames
          /\ currentPage' = currentPage]_vars

----------------------------------------------------------------------------
(* Clear filters *)

\* the list holds every loaded item, each once
HoldsEveryItem(games) ==
  /\ Len(games) = Len(allGames)
  /\ \A i \in 1..Len(allGames) : \E j \in 1..Len(games) : games[j] = allGames[i]

\* C29: after Clear filters completes, the applied state is the default
\* state, the URL carries no parameters, the controls show the default
\* selection and the result holds every loaded item, on page 1
C29_ClearRestoresDefaults ==
  last = "clearAllFilters"
    => /\ applied = DefaultState
       /\ url = NoParams
       /\ ui = InitialUI
       /\ currentPage = 1
       /\ HoldsEveryItem(filteredGames)
       /\ hits = PageGames(filteredGames, 1)

\* Clear filters has completed on the paginated collection
C29_Witness ==
  /\ last = "clearAllFilters"
  /\ Len(allGames) = PagedSize
  /\ Len(filteredGames) = PagedSize
  /\ Len(hits) = GAMES_PER_PAGE

----------------------------------------------------------------------------
(* the entries of the session history *)

\* the step rewrites the current entry with the state read from the controls
\* and the URL, and leaves the other entries and the position alone
ReplacesCurrentEntry ==
  /\ history'.index = history.index
  /\ Len(history'.entries) = Len(history.entries)
  /\ \A i \in 1..Len(history.entries) :
       i # history.index => history'.entries[i] = history.entries[i]
  /\ history'.entries[history.index] =
       [state |-> FilterObject(getFiltersFromUI(ui', nodes, currentPage')),
        url |-> url']

\* the step adds one entry after the current one and moves to it
PushesOneEntry ==
  /\ history'.index = history.index + 1
  /\ Len(history'.entries) = history'.index
  /\ SubSeq(history'.entries, 1, history.index) = SubSeq(history.entries, 1, history.index)
  /\ history'.entries[history'.index].url = url'

\* the step is a handler and not an input event or the passing of time: the
\* timers are left alone, or one fires
HandlerRuns == search' = search \/ PassRuns

\* C30: a text, facet, sort or page change replaces the state and URL of the
\* current history entry and adds none; Clear filters pushes exactly one
\* entry and is the only operation after which the entries are more or
\* other than a replacement: every entry the application creates is created
\* by one Clear filters operation
C30_HistoryEntries ==
  [][/\ (last' \in {"onFilterChange", "goToPage"} /\ HandlerRuns)
          => ReplacesCurrentEntry
     /\ last' = "clearAllFilters" => PushesOneEntry
     /\ last' \notin {"onFilterChange", "goToPage", "clearAllFilters"}
          => history'.entries = history.entries]_vars

\* a facet or sort change has rewritten the entry that Clear filters pushed
C30_Witness ==
  /\ Len(history.entries) = 2
  /\ history.index = 2
  /\ last = "onFilterChange"
  /\ history.entries[2].state.kind = "filters"
  /\ history.entries[1].state.kind = "filters"

====
